---- MODULE Spec2Model ----
(***************************************************************************)
(* Firemix: configuration resolution, build verification, dependency      *)
(* guard and bundle generation, modelled from the TypeScript sources.      *)
(*                                                                         *)
(* Strings are sequences of one-character strings, so that includes,       *)
(* startsWith, slice, dirname and basename are computed, not assumed.      *)
(* The filesystem is a function from project-relative paths to node kinds. *)
(***************************************************************************)
EXTENDS Integers, Sequences, FiniteSets, TLC

VARIABLES
    op,            \* the operation that produced the current outputs ("none" before any call)
    fs,            \* project filesystem: normalised relative path -> node kind
    packageJson,   \* content of <projectRoot>/package.json: [size, json]
    configFiles,   \* the vite.config.* / remix.config.* files of the project
    installed,     \* the package.json files of the @remix-run packages and of the adapter
    layout,        \* a ResolvedRemixConfig handed to verifyBuildOutput / applyConfigOverrides
    overrides,     \* the Partial<ResolvedRemixConfig> handed to applyConfigOverrides
    allowArg,      \* second argument of assertNoDevDependenciesInstalled
    firemixConfig, \* the FiremixConfig handed to generateBundleWithMetadata
    report,        \* BuildVerificationResult of the last verifyBuildOutput call
    applied,       \* outcome of the last applyConfigOverrides call
    guard,         \* outcome of the last assertNoDevDependenciesInstalled call
    parsed,        \* outcome of the last safeParsePackageJson call
    gen,           \* outcome of the last generateBundleWithMetadata call
    resolution,    \* outcome of the last resolveRemixConfig call
    nameArg,       \* the string handed to the name and path validators
    nameChecks,    \* outcome of the validators on nameArg
    runConfigArg,  \* the Partial<RunConfig> handed to validateRunConfig
    runConfigResult, \* outcome of the last validateRunConfig call
    bundle,        \* the BundleYaml assembled from a layout, a run configuration and the versions
    resolvedVersion,\* outcome of the last getResolvedRemixVersion call
    plugin,        \* the Vite plugin instance: its options and what configResolved recorded
    cliArgs,       \* the parsed command line of the last CLI run
    toolRun,       \* outcome of the last CLI run or closeBundle call
    writes         \* how many times bundle.yaml has been written

vars == <<op, fs, packageJson, configFiles, installed, layout, overrides, allowArg, firemixConfig,
          report, applied, guard, parsed, gen, resolution,
          nameArg, nameChecks, runConfigArg, runConfigResult, bundle, resolvedVersion, plugin, cliArgs, toolRun, writes>>

validatorVars == <<nameArg, nameChecks, runConfigArg, runConfigResult>>

toolVars == <<plugin, cliArgs, toolRun, writes>>

----------------------------------------------------------------------------
(* Strings                                                                 *)

Undefined == <<"undefined">>   \* the JavaScript value undefined (not a character sequence)
Absent == <<"absent">>         \* an object key that is not present at all

Truthy(s) == s # Undefined /\ s # Absent /\ s # <<>>

LowerChars == {"a","b","c","d","e","f","g","h","i","j","k","l","m",
               "n","o","p","q","r","s","t","u","v","w","x","y","z"}
UpperChars == {"A","B","C","D","E","F","G","H","I","J","K","L","M",
               "N","O","P","Q","R","S","T","U","V","W","X","Y","Z"}
DigitChars == {"0","1","2","3","4","5","6","7","8","9"}
AlnumChars == LowerChars \cup UpperChars \cup DigitChars

Includes(s, sub) ==
    \E i \in 1..(Len(s) - Len(sub) + 1) : SubSeq(s, i, i + Len(sub) - 1) = sub

StartsWith(s, pre) ==
    Len(s) >= Len(pre) /\ SubSeq(s, 1, Len(pre)) = pre

\* String.prototype.lastIndexOf for a one-character needle, 1-based; 0 when absent
LastIndexOf(s, ch) ==
    LET hits == {i \in 1..Len(s) : s[i] = ch}
    IN  IF hits = {} THEN 0 ELSE CHOOSE i \in hits : \A j \in hits : j <= i

AllIn(s, chars) == \A i \in 1..Len(s) : s[i] \in chars

S_server == <<"s","e","r","v","e","r">>
S_client == <<"c","l","i","e","n","t">>
S_build == <<"b","u","i","l","d">>
S_index_js == <<"i","n","d","e","x",".","j","s">>
S_app == <<"a","p","p">>
S_package_json == <<"p","a","c","k","a","g","e",".","j","s","o","n">>
S_node_modules == <<"n","o","d","e","_","m","o","d","u","l","e","s">>
S_public_build == <<"p","u","b","l","i","c","/","b","u","i","l","d">>
S_dot == <<".">>
S_slash == <<"/">>

----------------------------------------------------------------------------
(* node:path                                                               *)

RECURSIVE Split(_)
\* the "/"-separated segments of a path, empty segments included
Split(s) ==
    LET hits == {i \in 1..Len(s) : s[i] = "/"}
    IN  IF hits = {} THEN <<s>>
        ELSE LET i == CHOOSE k \in hits : \A j \in hits : k <= j
             IN  <<SubSeq(s, 1, i - 1)>> \o Split(SubSeq(s, i + 1, Len(s)))

RECURSIVE NormalizeSegs(_, _)
\* path.normalize on the segments of a relative path: drops "" and ".",
\* resolves ".." against the segments kept so far
NormalizeSegs(segs, acc) ==
    IF segs = <<>> THEN acc
    ELSE LET h == Head(segs)
             t == Tail(segs)
         IN  IF h = <<>> \/ h = S_dot THEN NormalizeSegs(t, acc)
             ELSE IF h = <<".", ".">>
                  THEN IF acc # <<>> /\ acc[Len(acc)] # <<".", ".">>
                       THEN NormalizeSegs(t, SubSeq(acc, 1, Len(acc) - 1))
                       ELSE NormalizeSegs(t, Append(acc, h))
                  ELSE NormalizeSegs(t, Append(acc, h))

RECURSIVE JoinSegs(_)
JoinSegs(segs) ==
    IF segs = <<>> THEN <<>>
    ELSE IF Len(segs) = 1 THEN segs[1]
    ELSE segs[1] \o S_slash \o JoinSegs(Tail(segs))

\* join(projectRoot, rel): the path relative to the project root, normalised;
\* <<>> is the project root itself
ProjectPath(rel) == JoinSegs(NormalizeSegs(Split(rel), <<>>))

\* join(projectRoot, a, b)
ProjectPath2(a, b) == ProjectPath(a \o S_slash \o b)

\* path.dirname (posix)
dirname(p) ==
    LET ends == {k \in 2..Len(p) : p[k] = "/" /\ \E j \in (k+1)..Len(p) : p[j] # "/"}
    IN  IF Len(p) = 0 THEN S_dot
        ELSE IF ends = {} THEN (IF p[1] = "/" THEN S_slash ELSE S_dot)
        ELSE LET e == CHOOSE k \in ends : \A j \in ends : j <= k
             IN  SubSeq(p, 1, e - 1)

\* path.basename (posix, no extension argument)
basename(p) ==
    LET nonSlash == {j \in 1..Len(p) : p[j] # "/"}
    IN  IF nonSlash = {} THEN <<>>
        ELSE LET e == CHOOSE j \in nonSlash : \A k \in nonSlash : k <= j
                 before == {k \in 1..e : p[k] = "/"}
                 st == IF before = {} THEN 1
                       ELSE (CHOOSE k \in before : \A j \in before : j <= k) + 1
             IN  SubSeq(p, st, e)

----------------------------------------------------------------------------
(* config.ts                                                               *)

NoError == "none"

\* DEFAULTS
DEFAULTS ==
    [buildDirectory |-> S_build,
     serverBuildFile |-> S_index_js,
     serverBuildPath |-> S_build \o S_slash \o S_server \o S_slash \o S_index_js,
     clientBuildDir |-> S_build \o S_slash \o S_client,
     appDirectory |-> S_app]

\* an extracted / merged Partial<ResolvedRemixConfig> with no field set
EmptyPartial ==
    [buildDirectory |-> Undefined, serverBuildFile |-> Undefined,
     serverBuildPath |-> Undefined, clientBuildDir |-> Undefined,
     appDirectory |-> Undefined]

\* /^[a-zA-Z0-9._/-]+$/
PathPattern(s) == Len(s) >= 1 /\ AllIn(s, AlnumChars \cup {".", "_", "/", "-"})

\* the character whitelist alone, without the traversal and absolute-path test
sanitizeDirectoryName_PatternOnly(name) ==
    IF ~PathPattern(name) THEN "Invalid: only alphanumeric, dash, underscore, dot, and forward slash are allowed"
    ELSE NoError

\* sanitizeDirectoryName: the error it throws, NoError when it returns name
sanitizeDirectoryName(name) ==
    IF ~PathPattern(name) THEN "Invalid: only alphanumeric, dash, underscore, dot, and forward slash are allowed"
    ELSE IF Includes(name, <<".", ".">>) \/ StartsWith(name, S_slash)
         THEN "Invalid: path traversal or absolute paths not allowed"
    ELSE NoError

\* the relative-path test without the ".." test
sanitizeRelativePath_AllowsTraversal(path) ==
    IF ~PathPattern(path) THEN "Invalid: only alphanumeric, dash, underscore, dot, and forward slash are allowed"
    ELSE IF StartsWith(path, S_slash) \/ Includes(path, <<"\\">>)
         THEN "Invalid: path traversal or absolute paths not allowed"
    ELSE NoError

\* sanitizeRelativePath: the error it throws, NoError when it returns path
sanitizeRelativePath(path) ==
    IF ~PathPattern(path) THEN "Invalid: only alphanumeric, dash, underscore, dot, and forward slash are allowed"
    ELSE IF Includes(path, <<".", ".">>) \/ StartsWith(path, S_slash) \/ Includes(path, <<"\\">>)
         THEN "Invalid: path traversal or absolute paths not allowed"
    ELSE NoError

\* computeDerivedPaths: [error, field, value]; value is meaningful when error = NoError
computeDerivedPaths(config) ==
    LET hasExplicitBuildDir == config.buildDirectory # Undefined
        hasExplicitServerFile == config.serverBuildFile # Undefined
        hasExplicitServerPath == config.serverBuildPath # Undefined
        e1 == IF hasExplicitServerPath THEN sanitizeRelativePath(config.serverBuildPath) ELSE NoError
        providedServerPath == IF hasExplicitServerPath THEN config.serverBuildPath ELSE Undefined
        e2 == IF Truthy(config.buildDirectory) THEN sanitizeDirectoryName(config.buildDirectory) ELSE NoError
        buildDirectory ==
            IF Truthy(config.buildDirectory) THEN config.buildDirectory
            ELSE IF Truthy(providedServerPath) THEN dirname(providedServerPath)
            ELSE DEFAULTS.buildDirectory
        e3 == IF Truthy(config.serverBuildFile) THEN sanitizeDirectoryName(config.serverBuildFile) ELSE NoError
        serverBuildFile ==
            IF Truthy(config.serverBuildFile) THEN config.serverBuildFile
            ELSE IF Truthy(providedServerPath) THEN basename(providedServerPath)
            ELSE DEFAULTS.serverBuildFile
        e4 == IF Truthy(config.appDirectory) THEN sanitizeDirectoryName(config.appDirectory) ELSE NoError
        useProvidedServerPath ==
            Truthy(providedServerPath) /\ ~hasExplicitBuildDir /\ ~hasExplicitServerFile
        serverBuildPath ==
            IF useProvidedServerPath THEN providedServerPath
            ELSE buildDirectory \o S_slash \o S_server \o S_slash \o serverBuildFile
        e5 == IF Truthy(config.clientBuildDir) THEN sanitizeRelativePath(config.clientBuildDir) ELSE NoError
        clientBuildDir ==
            IF Truthy(config.clientBuildDir) THEN config.clientBuildDir
            ELSE buildDirectory \o S_slash \o S_client
        value == [buildDirectory |-> buildDirectory,
                  serverBuildFile |-> serverBuildFile,
                  serverBuildPath |-> serverBuildPath,
                  clientBuildDir |-> clientBuildDir,
                  appDirectory |-> IF Truthy(config.appDirectory) THEN config.appDirectory
                                   ELSE DEFAULTS.appDirectory]
    IN  IF e1 # NoError THEN [error |-> e1, field |-> "serverBuildPath", value |-> EmptyPartial]
        ELSE IF e2 # NoError THEN [error |-> e2, field |-> "buildDirectory", value |-> EmptyPartial]
        ELSE IF e3 # NoError THEN [error |-> e3, field |-> "serverBuildFile", value |-> EmptyPartial]
        ELSE IF e4 # NoError THEN [error |-> e4, field |-> "appDirectory", value |-> EmptyPartial]
        ELSE IF e5 # NoError THEN [error |-> e5, field |-> "clientBuildDir", value |-> EmptyPartial]
        ELSE [error |-> NoError, field |-> "none", value |-> value]

ConfigFields == {"buildDirectory", "serverBuildFile", "serverBuildPath", "clientBuildDir", "appDirectory"}

\* { ...resolved, ...overrides }: a key present in overrides wins, even when its value is undefined
SpreadMerge(resolved, ov) ==
    [f \in ConfigFields |-> IF ov[f] # Absent THEN ov[f] ELSE resolved[f]]

\* the merge without the delete: the inherited clientBuildDir survives
DropStaleClientDir_KeepsInherited(merged, ov) == merged

\* the delete of merged.clientBuildDir when buildDirectory is overridden and clientBuildDir is not
DropStaleClientDir(merged, ov) ==
    IF Truthy(ov.buildDirectory) /\ ov.clientBuildDir \in {Absent, Undefined}
    THEN [merged EXCEPT !.clientBuildDir = Undefined]
    ELSE merged

\* the merged layout returned where the input layout should be
applyConfigOverrides_ReturnsMerged(resolved, ov) ==
    LET merged == DropStaleClientDir(SpreadMerge(resolved, ov), ov)
    IN  IF Truthy(ov.buildDirectory) \/ Truthy(ov.serverBuildFile)
        THEN computeDerivedPaths(merged)
        ELSE [error |-> NoError, field |-> "none", value |-> merged]

\* recomputation only for a buildDirectory override: a serverBuildFile override is merged in as is
applyConfigOverrides_RecomputesForBuildDirOnly(resolved, ov) ==
    LET merged == DropStaleClientDir(SpreadMerge(resolved, ov), ov)
    IN  IF Truthy(ov.buildDirectory)
        THEN computeDerivedPaths(merged)
        ELSE IF Truthy(ov.serverBuildFile)
        THEN [error |-> NoError, field |-> "none", value |-> merged]
        ELSE [error |-> NoError, field |-> "none", value |-> resolved]

\* applyConfigOverrides: [error, field, value]
applyConfigOverrides(resolved, ov) ==
    LET merged == DropStaleClientDir(SpreadMerge(resolved, ov), ov)
    IN  IF Truthy(ov.buildDirectory) \/ Truthy(ov.serverBuildFile)
        THEN computeDerivedPaths(merged)
        ELSE [error |-> NoError, field |-> "none", value |-> resolved]

MAX_CONFIG_FILE_SIZE == 100 * 1024

viteConfigFiles == <<"vite.config.ts", "vite.config.js", "vite.config.mjs">>
legacyConfigFiles == <<"remix.config.ts", "remix.config.js", "remix.config.mjs">>

\* A config file: whether it exists, its size, and the `key: "value"` literals
\* its text contains (what the extraction patterns can match); a text with no
\* literal at all may still be non-empty code.
ConfigKeys == {"buildDirectory", "serverBuildFile", "appDirectory", "serverBuildPath",
               "assetsBuildDirectory"}
NoLiterals == [k \in ConfigKeys |-> Undefined]
AbsentFile == [exists |-> FALSE, size |-> 0, literals |-> NoLiterals]

\* safeReadFile followed by the `if (content)` test: TRUE when there is text to scan
HasContent(file) == file.exists /\ file.size <= MAX_CONFIG_FILE_SIZE /\ file.size > 0

\* extractViteRemixConfig
extractViteRemixConfig(file) ==
    [EmptyPartial EXCEPT !.buildDirectory = file.literals["buildDirectory"],
                         !.serverBuildFile = file.literals["serverBuildFile"],
                         !.appDirectory = file.literals["appDirectory"]]

\* the legacy server path split into build directory and file name instead of kept whole
extractLegacyRemixConfig_SplitsServerPath(file) ==
    [EmptyPartial EXCEPT !.buildDirectory = IF file.literals["serverBuildPath"] = Undefined THEN Undefined
                                            ELSE dirname(file.literals["serverBuildPath"]),
                         !.serverBuildFile = IF file.literals["serverBuildPath"] = Undefined THEN Undefined
                                             ELSE basename(file.literals["serverBuildPath"]),
                         !.clientBuildDir = file.literals["assetsBuildDirectory"],
                         !.appDirectory = file.literals["appDirectory"]]

\* extractLegacyRemixConfig
extractLegacyRemixConfig(file) ==
    [EmptyPartial EXCEPT !.serverBuildPath = file.literals["serverBuildPath"],
                         !.clientBuildDir = file.literals["assetsBuildDirectory"],
                         !.appDirectory = file.literals["appDirectory"]]

\* Object.keys(extractedConfig)
KeysOf(partial) == {f \in ConfigFields : partial[f] # Undefined}

\* the loop over viteConfigFiles from candidate i on: [extracted, saw, parsed, from]
RECURSIVE ScanVite(_, _, _, _)
ScanVite(files, i, extracted, saw) ==
    IF i > Len(viteConfigFiles)
    THEN [extracted |-> extracted, saw |-> saw, parsed |-> FALSE, from |-> "none"]
    ELSE LET file == files[viteConfigFiles[i]]
         IN  IF HasContent(file)
             THEN IF KeysOf(extractViteRemixConfig(file)) # {}
                  THEN [extracted |-> extractViteRemixConfig(file), saw |-> TRUE,
                        parsed |-> TRUE, from |-> viteConfigFiles[i]]
                  ELSE ScanVite(files, i + 1, extractViteRemixConfig(file), TRUE)
             ELSE ScanVite(files, i + 1, extracted, saw)

\* the loop over legacyConfigFiles from candidate i on: [extracted, from]
RECURSIVE ScanLegacy(_, _, _)
ScanLegacy(files, i, extracted) ==
    IF i > Len(legacyConfigFiles) THEN [extracted |-> extracted, from |-> "none"]
    ELSE LET file == files[legacyConfigFiles[i]]
         IN  IF HasContent(file)
             THEN IF KeysOf(extractLegacyRemixConfig(file)) # {}
                  THEN [extracted |-> extractLegacyRemixConfig(file), from |-> legacyConfigFiles[i]]
                  ELSE ScanLegacy(files, i + 1, extractLegacyRemixConfig(file))
             ELSE ScanLegacy(files, i + 1, extracted)

\* the legacy files scanned whatever the vite files gave, their fields filling the gaps
resolveRemixConfig_MergesLegacy(files) ==
    LET vite == ScanVite(files, 1, EmptyPartial, FALSE)
        legacy == ScanLegacy(files, 1, EmptyPartial)
        merged == [f \in ConfigFields |->
                      IF vite.extracted[f] # Undefined THEN vite.extracted[f] ELSE legacy.extracted[f]]
        derived == computeDerivedPaths(merged)
    IN  [error |-> derived.error, field |-> derived.field, value |-> derived.value,
         warned |-> vite.saw /\ ~vite.parsed,
         from |-> IF vite.parsed THEN vite.from ELSE legacy.from]

\* resolveRemixConfig: [error, field, value, warned, from];
\* warned: the console.warn about static extraction; from: the file the fields came from
resolveRemixConfig(files) ==
    LET vite == ScanVite(files, 1, EmptyPartial, FALSE)
        legacy == IF KeysOf(vite.extracted) = {}
                  THEN ScanLegacy(files, 1, vite.extracted)
                  ELSE [extracted |-> vite.extracted, from |-> vite.from]
        derived == computeDerivedPaths(legacy.extracted)
    IN  [error |-> derived.error, field |-> derived.field, value |-> derived.value,
         warned |-> vite.saw /\ ~vite.parsed, from |-> legacy.from]

----------------------------------------------------------------------------
(* node:fs over the modelled filesystem                                    *)

\* "file" is a non-empty regular file, "empty" a zero-byte regular file,
\* "link" a symlink whose target exists, "dangling" a symlink whose target does not
NodeKinds == {"absent", "file", "empty", "dir", "link", "dangling"}

KindOf(f, p) == IF p \in DOMAIN f THEN f[p] ELSE "absent"

\* existsSync follows symlinks
existsSync(f, p) == KindOf(f, p) \in {"file", "empty", "dir", "link"}

\* isSymlink: lstatSync(path).isSymbolicLink(), false when lstat throws
isSymlink(f, p) == KindOf(f, p) \in {"link", "dangling"}

\* the parent directory of a normalised project path
ParentPath(p) == IF LastIndexOf(p, "/") = 0 THEN <<>> ELSE SubSeq(p, 1, LastIndexOf(p, "/") - 1)

\* readdirSync(dirPath): the names of the entries of the directory
readdirSync(f, dirPath) ==
    {basename(q) : q \in {x \in DOMAIN f : x # <<>> /\ ParentPath(x) = dirPath /\ f[x] # "absent"}}

\* isEmptyDirectory: no entry whose name does not start with "."
isEmptyDirectory(f, dirPath) ==
    {n \in readdirSync(f, dirPath) : ~StartsWith(n, S_dot)} = {}

----------------------------------------------------------------------------
(* verify.ts                                                               *)

S_env == <<".","e","n","v">>
S_local == <<".","l","o","c","a","l">>
S_development == <<".","d","e","v","e","l","o","p","m","e","n","t">>

problematicPaths ==
    <<S_env, S_env \o S_local, S_env \o S_development, S_env \o S_development \o S_local>>

NewResult ==
    [valid |-> TRUE, errors |-> <<>>, warnings |-> <<>>,
     serverEntry |-> Undefined, clientDir |-> Undefined,
     hasNodeModules |-> FALSE, hasPackageJson |-> FALSE]

Fatal(r, msg, path) ==
    [r EXCEPT !.valid = FALSE, !.errors = Append(@, [msg |-> msg, path |-> path])]

Warn(r, msg, path) ==
    [r EXCEPT !.warnings = Append(@, [msg |-> msg, path |-> path])]

\* 1. Check server entry point
CheckServerEntry(f, config, r) ==
    LET serverEntryPath == ProjectPath(config.serverBuildPath)
    IN  IF ~existsSync(f, serverEntryPath)
        THEN Fatal(r, "Server entry point not found", config.serverBuildPath)
        ELSE IF isSymlink(f, serverEntryPath)
        THEN Fatal(r, "Security: Server entry point is a symlink", config.serverBuildPath)
        ELSE IF KindOf(f, serverEntryPath) \notin {"file", "empty"}
        THEN Fatal(r, "Server entry point is not a file", config.serverBuildPath)
        ELSE IF KindOf(f, serverEntryPath) = "empty"
        THEN Fatal(r, "Server entry point is empty", config.serverBuildPath)
        ELSE [r EXCEPT !.serverEntry = serverEntryPath]

\* CheckClientDir with statSync and no symlink test: a link to a directory passes
CheckClientDir_FollowsSymlink(f, config, r) ==
    LET clientDirPath == ProjectPath(config.clientBuildDir)
    IN  IF ~existsSync(f, clientDirPath)
        THEN Fatal(r, "Client assets directory not found", config.clientBuildDir)
        ELSE IF KindOf(f, clientDirPath) \notin {"dir", "link"}
        THEN Fatal(r, "Client assets path is not a directory", config.clientBuildDir)
        ELSE IF isEmptyDirectory(f, clientDirPath)
        THEN [Warn(r, "Client assets directory is empty", config.clientBuildDir)
                EXCEPT !.clientDir = clientDirPath]
        ELSE [r EXCEPT !.clientDir = clientDirPath]

\* CheckClientDir with the empty directory treated as a fatal condition
CheckClientDir_EmptyIsFatal(f, config, r) ==
    LET clientDirPath == ProjectPath(config.clientBuildDir)
    IN  IF ~existsSync(f, clientDirPath)
        THEN Fatal(r, "Client assets directory not found", config.clientBuildDir)
        ELSE IF isSymlink(f, clientDirPath)
        THEN Fatal(r, "Security: Client assets directory is a symlink", config.clientBuildDir)
        ELSE IF KindOf(f, clientDirPath) # "dir"
        THEN Fatal(r, "Client assets path is not a directory", config.clientBuildDir)
        ELSE IF isEmptyDirectory(f, clientDirPath)
        THEN Fatal(r, "Client assets directory is empty", config.clientBuildDir)
        ELSE [r EXCEPT !.clientDir = clientDirPath]

\* 2. Check client assets directory
CheckClientDir(f, config, r) ==
    LET clientDirPath == ProjectPath(config.clientBuildDir)
    IN  IF ~existsSync(f, clientDirPath)
        THEN Fatal(r, "Client assets directory not found", config.clientBuildDir)
        ELSE IF isSymlink(f, clientDirPath)
        THEN Fatal(r, "Security: Client assets directory is a symlink", config.clientBuildDir)
        ELSE IF KindOf(f, clientDirPath) # "dir"
        THEN Fatal(r, "Client assets path is not a directory", config.clientBuildDir)
        ELSE IF isEmptyDirectory(f, clientDirPath)
        THEN [Warn(r, "Client assets directory is empty", config.clientBuildDir)
                EXCEPT !.clientDir = clientDirPath]
        ELSE [r EXCEPT !.clientDir = clientDirPath]

\* serverBuildPath up to its last "/", "." when it has none
ServerDirRelative(serverBuildPath) ==
    IF Includes(serverBuildPath, S_slash)
    THEN SubSeq(serverBuildPath, 1, LastIndexOf(serverBuildPath, "/") - 1)
    ELSE S_dot

\* CheckServerDir skipped once an earlier check has failed
CheckServerDir_ShortCircuit(f, config, r) ==
    LET serverDirRelative == ServerDirRelative(config.serverBuildPath)
        serverDirPath == ProjectPath(serverDirRelative)
    IN  IF ~r.valid THEN r
        ELSE IF ~existsSync(f, serverDirPath)
        THEN Fatal(r, "Server build directory not found", serverDirRelative)
        ELSE IF isSymlink(f, serverDirPath)
        THEN Fatal(r, "Security: Server directory is a symlink", serverDirRelative)
        ELSE r

\* 3. Check server directory exists
CheckServerDir(f, config, r) ==
    LET serverDirRelative == ServerDirRelative(config.serverBuildPath)
        serverDirPath == ProjectPath(serverDirRelative)
    IN  IF ~existsSync(f, serverDirPath)
        THEN Fatal(r, "Server build directory not found", serverDirRelative)
        ELSE IF isSymlink(f, serverDirPath)
        THEN Fatal(r, "Security: Server directory is a symlink", serverDirRelative)
        ELSE r

\* 4. Check package.json exists
CheckPackageJson(f, r) ==
    LET packageJsonPath == ProjectPath(S_package_json)
    IN  IF ~existsSync(f, packageJsonPath)
        THEN Fatal(r, "package.json not found in project root", S_package_json)
        ELSE IF isSymlink(f, packageJsonPath)
        THEN Fatal(r, "Security: package.json is a symlink", S_package_json)
        ELSE [r EXCEPT !.hasPackageJson = TRUE]

\* CheckNodeModules with a symlinked node_modules clearing valid
CheckNodeModules_SymlinkInvalid(f, r) ==
    LET nodeModulesPath == ProjectPath(S_node_modules)
    IN  IF ~existsSync(f, nodeModulesPath)
        THEN Warn(r, "node_modules not found", S_node_modules)
        ELSE IF isSymlink(f, nodeModulesPath)
        THEN [Warn(r, "node_modules is a symlink", S_node_modules)
                EXCEPT !.hasNodeModules = TRUE, !.valid = FALSE]
        ELSE [r EXCEPT !.hasNodeModules = TRUE]

\* 5. Check node_modules exists (warning only)
CheckNodeModules(f, r) ==
    LET nodeModulesPath == ProjectPath(S_node_modules)
    IN  IF ~existsSync(f, nodeModulesPath)
        THEN Warn(r, "node_modules not found", S_node_modules)
        ELSE IF isSymlink(f, nodeModulesPath)
        THEN [Warn(r, "node_modules is a symlink", S_node_modules) EXCEPT !.hasNodeModules = TRUE]
        ELSE [r EXCEPT !.hasNodeModules = TRUE]

\* 6. Check for build artifacts that should not be deployed
CheckProblematicPaths(f, config, r) ==
    LET Found(problematic) == existsSync(f, ProjectPath2(config.buildDirectory, problematic))
        found == SelectSeq(problematicPaths, Found)
    IN  [r EXCEPT !.warnings =
            @ \o [i \in 1..Len(found) |-> [msg |-> "Found env file in build output", path |-> found[i]]]]

verifyBuildOutput(f, config) ==
    CheckProblematicPaths(f, config,
      CheckNodeModules(f,
        CheckPackageJson(f,
          CheckServerDir(f, config,
            CheckClientDir(f, config,
              CheckServerEntry(f, config, NewResult))))))

----------------------------------------------------------------------------
(* Projects: the filesystem states the operations are run against          *)

MaxSecretFiles == 1   \* at most this many of the problematicPaths exist in one project

EmptyFs == [p \in {} |-> "absent"]

S_assets == <<"a","s","s","e","t","s">>
S_keep == <<".","k","e","e","p">>

SecretPaths(lay) == {ProjectPath2(lay.buildDirectory, problematicPaths[i]) : i \in 1..Len(problematicPaths)}

\* the kinds a new node may take: nothing exists below a path that is not a
\* directory (or a link to one), and the number of secret files is bounded
AllowedKinds(f, item, secrets) ==
    IF item.path # <<>> /\ ParentPath(item.path) \in DOMAIN f
       /\ f[ParentPath(item.path)] \notin {"dir", "link"}
    THEN {"absent"}
    ELSE IF item.path \in secrets
            /\ Cardinality({q \in secrets \cap DOMAIN f : f[q] # "absent"}) >= MaxSecretFiles
    THEN {"absent"}
    ELSE item.kinds

RECURSIVE FsExtend(_, _, _)
FsExtend(S, items, secrets) ==
    IF items = <<>> THEN S
    ELSE LET item == Head(items)
             next == UNION {IF item.path \in DOMAIN f THEN {f}
                            ELSE {(item.path :> k) @@ f : k \in AllowedKinds(f, item, secrets)} : f \in S}
         IN  FsExtend(next, Tail(items), secrets)

\* the paths verifyBuildOutput looks at for a layout, parents before children
BuildItems(lay) ==
    LET serverDir == ProjectPath(ServerDirRelative(lay.serverBuildPath))
        clientDir == ProjectPath(lay.clientBuildDir)
    IN  << [path |-> serverDir,
            kinds |-> IF serverDir = <<>> THEN {"dir", "link"}
                      ELSE {"absent", "file", "dir", "link", "dangling"}],
           [path |-> ProjectPath(lay.serverBuildPath), kinds |-> NodeKinds],
           [path |-> clientDir, kinds |-> {"absent", "file", "dir", "link", "dangling"}],
           [path |-> clientDir \o S_slash \o S_assets, kinds |-> {"absent", "dir"}],
           [path |-> clientDir \o S_slash \o S_keep, kinds |-> {"absent", "file"}],
           [path |-> S_package_json, kinds |-> {"absent", "file", "dir", "link", "dangling"}],
           [path |-> S_node_modules, kinds |-> {"absent", "dir", "link", "dangling"}] >>
        \o [i \in 1..Len(problematicPaths) |->
              [path |-> ProjectPath2(lay.buildDirectory, problematicPaths[i]),
               kinds |-> {"absent", "file"}]]

FsStates(lay) == FsExtend({EmptyFs}, BuildItems(lay), SecretPaths(lay))

\* layouts as resolveRemixConfig produces them: the defaults, a legacy flat
\* server path with its own assets directory, a server entry in the project root
VerifyLayouts ==
    {computeDerivedPaths(c).value : c \in
        {EmptyPartial,
         [EmptyPartial EXCEPT !.serverBuildPath = S_build \o S_slash \o S_index_js,
                              !.clientBuildDir = S_public_build],
         [EmptyPartial EXCEPT !.serverBuildPath = S_index_js]}}

----------------------------------------------------------------------------
(* Values of the variables an operation does not use                       *)

NoPackageJson ==
    [size |-> 0,
     json |-> [type |-> "syntaxError", keys |-> {},
               dependencies |-> [type |-> "undefined", entries |-> <<>>, padding |-> 0],
               devDependencies |-> [type |-> "undefined", entries |-> <<>>, padding |-> 0]]]
NoConfigFiles ==
    [n \in {"vite.config.ts", "vite.config.js", "vite.config.mjs",
            "remix.config.ts", "remix.config.js", "remix.config.mjs"} |->
        [exists |-> FALSE, size |-> 0,
         literals |-> [k \in {"buildDirectory", "serverBuildFile", "appDirectory", "serverBuildPath",
                              "assetsBuildDirectory"} |-> <<"undefined">>]]]
NoManifest == [kind |-> "absent", size |-> 0, type |-> "syntaxError", version |-> <<"undefined">>]
NoInstalled == [packages |-> <<NoManifest, NoManifest, NoManifest, NoManifest, NoManifest>>,
                adapter |-> NoManifest]
NoOverrides == [f \in ConfigFields |-> Absent]
NoRemixVersion == <<"none">>
NoPlugin == [enabled |-> "unset", outputDir |-> <<"undefined">>, isBuildMode |-> FALSE, isSsrBuild |-> FALSE]
NoCliArgs ==
    [help |-> FALSE, version |-> FALSE, dryRun |-> FALSE, verifyOnly |-> FALSE,
     outputDir |-> <<"undefined">>,
     config |-> [buildDirectory |-> <<"undefined">>, buildDir |-> <<"undefined">>,
                 serverBuildFile |-> <<"undefined">>, runCommand |-> <<"undefined">>,
                 runConfig |-> [supplied |-> {},
                                values |-> [minInstances |-> 0, maxInstances |-> 0, concurrency |-> 0,
                                            cpu |-> 0, memoryMiB |-> 0]],
                 allowDevDependencies |-> [type |-> "undefined", value |-> FALSE, fields |-> <<>>],
                 allowSymlinks |-> [type |-> "undefined", value |-> FALSE, fields |-> <<>>],
                 verify |-> [type |-> "undefined", value |-> FALSE, fields |-> <<>>]]]
NoRun ==
    [tool |-> "none", outcome |-> "none", error |-> "none", stage |-> "none", generated |-> FALSE,
     verifierRan |-> FALSE,
     verified |-> [buildDirectory |-> <<"undefined">>, serverBuildFile |-> <<"undefined">>,
                   serverBuildPath |-> <<"undefined">>, clientBuildDir |-> <<"undefined">>,
                   appDirectory |-> <<"undefined">>],
     createdDir |-> FALSE, wrote |-> FALSE]
NoName == <<>>
NoNameChecks == [directoryName |-> "none", relativePath |-> "none", packageName |-> "none"]
NoRunConfigResult ==
    [error |-> "none",
     value |-> [minInstances |-> 0, maxInstances |-> 0, concurrency |-> 0, cpu |-> 0, memoryMiB |-> 0]]
NoResolved == [error |-> "none", field |-> "none", value |-> EmptyPartial, warned |-> FALSE, from |-> "none"]
NoApplied == [error |-> NoError, field |-> "none", value |-> EmptyPartial]
NoGuard == [error |-> NoError, count |-> 0, dep |-> <<>>, reads |-> {}]
NoParsed ==
    [error |-> NoError, key |-> "",
     value |-> [dependencies |-> [type |-> "undefined", entries |-> <<>>, padding |-> 0],
                devDependencies |-> [type |-> "undefined", entries |-> <<>>, padding |-> 0]]]
NoAllowArg == [type |-> "undefined", value |-> FALSE, fields |-> <<>>]
NoRunConfig ==
    [supplied |-> {},
     values |-> [minInstances |-> 0, maxInstances |-> 0, concurrency |-> 0, cpu |-> 0, memoryMiB |-> 0]]
NoFiremixConfig ==
    [buildDirectory |-> <<"undefined">>, buildDir |-> <<"undefined">>,
     serverBuildFile |-> <<"undefined">>, runCommand |-> <<"undefined">>,
     runConfig |-> NoRunConfig,
     allowDevDependencies |-> [type |-> "undefined", value |-> FALSE, fields |-> <<>>],
     allowSymlinks |-> [type |-> "undefined", value |-> FALSE, fields |-> <<>>],
     verify |-> [type |-> "undefined", value |-> FALSE, fields |-> <<>>]]
NoBundle ==
    [version |-> "",
     runConfig |-> [runCommand |-> <<>>, concurrency |-> 0, cpu |-> 0, memoryMiB |-> 0,
                    minInstances |-> 0, maxInstances |-> 0],
     outputFiles |-> [serverApp |-> [include |-> <<>>], staticAssets |-> [present |-> FALSE, include |-> <<>>]],
     metadata |-> [adapterPackageName |-> "", adapterVersion |-> <<>>, framework |-> "",
                   frameworkVersion |-> <<"undefined">>]]
NoGen ==
    [error |-> "none", stage |-> "none",
     remixConfig |-> [buildDirectory |-> <<"undefined">>, serverBuildFile |-> <<"undefined">>,
                      serverBuildPath |-> <<"undefined">>, clientBuildDir |-> <<"undefined">>,
                      appDirectory |-> <<"undefined">>],
     verifierRan |-> FALSE, guardRan |-> FALSE,
     guardArg |-> [type |-> "undefined", value |-> FALSE, fields |-> <<>>],
     guardReads |-> {}, warnings |-> <<>>, bundle |-> NoBundle]

----------------------------------------------------------------------------
(* Build verification: one call of verifyBuildOutput on a project          *)

InitVerify ==
    /\ op = "none"
    /\ layout \in VerifyLayouts
    /\ fs \in FsStates(layout)
    /\ packageJson = NoPackageJson
    /\ configFiles = NoConfigFiles
    /\ installed = NoInstalled
    /\ overrides = NoOverrides
    /\ allowArg = NoAllowArg
    /\ firemixConfig = NoFiremixConfig
    /\ report = NewResult
    /\ applied = NoApplied
    /\ guard = NoGuard
    /\ parsed = NoParsed
    /\ gen = NoGen
    /\ writes = 0
    /\ toolRun = NoRun
    /\ cliArgs = NoCliArgs
    /\ plugin = NoPlugin
    /\ resolvedVersion = NoRemixVersion
    /\ bundle = NoBundle
    /\ runConfigResult = NoRunConfigResult
    /\ runConfigArg = NoRunConfig
    /\ nameChecks = NoNameChecks
    /\ nameArg = NoName
    /\ resolution = NoResolved

VerifyBuildOutput ==
    /\ op = "none"
    /\ op' = "verifyBuildOutput"
    /\ report' = verifyBuildOutput(fs, layout)
    /\ UNCHANGED <<toolVars, resolvedVersion, validatorVars, bundle, resolution, fs, packageJson, configFiles, installed, layout, overrides, allowArg, firemixConfig,
                   applied, guard, parsed, gen>>

NextVerify == VerifyBuildOutput

SpecVerify == InitVerify /\ [][NextVerify]_vars

----------------------------------------------------------------------------
(* Claims about verifyBuildOutput (checked under SpecVerify)               *)

Verified == op = "verifyBuildOutput"

\* the four artifacts, located from the layout with node's dirname
EntryPath == ProjectPath(layout.serverBuildPath)
EntryDirPath == ProjectPath(dirname(layout.serverBuildPath))
ClientPath == ProjectPath(layout.clientBuildDir)
ManifestPath == S_package_json
DepTreePath == S_node_modules

RealKinds == {"file", "empty", "dir"}   \* exists and is not a symlink

EntryOk == KindOf(fs, EntryPath) = "file"
EntryDirOk == KindOf(fs, EntryDirPath) \in RealKinds
ClientOk == KindOf(fs, ClientPath) = "dir"
ManifestOk == KindOf(fs, ManifestPath) \in RealKinds

Msgs(seq) == {seq[i].msg : i \in 1..Len(seq)}

\* C1: verifyBuildOutput returns valid = true exactly when the server entry is
\* a non-empty regular file that is no symlink, its directory exists and is no
\* symlink, the client assets directory is a real directory, and package.json
\* exists and is no symlink.
C1_ValidIffArtifactsOk ==
    Verified => (report.valid <=> (EntryOk /\ EntryDirOk /\ ClientOk /\ ManifestOk))

\* the client directory replaced by a symlink to a valid directory, all else fine
C1_Witness ==
    /\ Verified
    /\ KindOf(fs, ClientPath) = "link"
    /\ EntryOk /\ EntryDirOk /\ ManifestOk
    /\ ~report.valid
    /\ "Security: Client assets directory is a symlink" \in Msgs(report.errors)

\* the filesystem with one advisory-only path changed: node_modules or a secret file
AdvisoryVariants ==
    {[fs EXCEPT ![DepTreePath] = k] : k \in {"absent", "dir", "link", "dangling"}}
    \cup {[fs EXCEPT ![q] = k] : q \in SecretPaths(layout), k \in {"absent", "file"}}

\* C2: valid is false iff errors is non-empty, and a change that only adds or
\* removes warnings (node_modules, secret files) leaves valid as it is.
C2_ValidIffNoErrors ==
    Verified =>
        /\ (~report.valid <=> report.errors # <<>>)
        /\ \A f2 \in AdvisoryVariants : verifyBuildOutput(f2, layout).valid = report.valid

\* a valid report that carries warnings
C2_Witness ==
    Verified /\ report.valid /\ Len(report.warnings) >= 2 /\ report.errors = <<>>

EntryMsgs == {"Server entry point not found", "Security: Server entry point is a symlink",
              "Server entry point is not a file", "Server entry point is empty"}
EntryDirMsgs == {"Server build directory not found", "Security: Server directory is a symlink"}
ClientMsgs == {"Client assets directory not found", "Security: Client assets directory is a symlink",
               "Client assets path is not a directory"}
ManifestMsgs == {"package.json not found in project root", "Security: package.json is a symlink"}
FatalMsgs == EntryMsgs \cup EntryDirMsgs \cup ClientMsgs \cup ManifestMsgs

CountMsgs(seq, msgs) == Cardinality({i \in 1..Len(seq) : seq[i].msg \in msgs})

SecretExists(i) ==
    KindOf(fs, ProjectPath2(layout.buildDirectory, problematicPaths[i])) \in {"file", "empty", "dir", "link"}

\* C3: no short-circuit: each of the four fatal checks that fails contributes
\* exactly one error of its own, whatever the other checks found, and the
\* node_modules and secret-file checks run even when fatal checks failed.
C3_NoShortCircuit ==
    Verified =>
        /\ CountMsgs(report.errors, EntryMsgs) = (IF EntryOk THEN 0 ELSE 1)
        /\ CountMsgs(report.errors, EntryDirMsgs) = (IF EntryDirOk THEN 0 ELSE 1)
        /\ CountMsgs(report.errors, ClientMsgs) = (IF ClientOk THEN 0 ELSE 1)
        /\ CountMsgs(report.errors, ManifestMsgs) = (IF ManifestOk THEN 0 ELSE 1)
        /\ (KindOf(fs, DepTreePath) = "absent" => "node_modules not found" \in Msgs(report.warnings))
        /\ \A i \in 1..Len(problematicPaths) :
              SecretExists(i) => \E j \in 1..Len(report.warnings) :
                                    report.warnings[j].path = problematicPaths[i]

\* all four fatal checks fail in one call and the warning checks still report
C3_Witness ==
    /\ Verified
    /\ ~EntryOk /\ ~EntryDirOk /\ ~ClientOk /\ ~ManifestOk
    /\ Len(report.errors) = 4
    /\ "node_modules not found" \in Msgs(report.warnings)
    /\ "Found env file in build output" \in Msgs(report.warnings)

ClientEmptyRealDir ==
    /\ KindOf(fs, ClientPath) = "dir"
    /\ KindOf(fs, ClientPath \o S_slash \o S_assets) = "absent"

\* C4: advisory conditions only produce warnings: an empty real client
\* directory, an absent or symlinked node_modules and a secret file in the build
\* directory each add a warning and no error, so a project whose four artifacts
\* are fine stays valid; hasNodeModules is true exactly when node_modules exists.
C4_AdvisoryOnlyWarns ==
    Verified =>
        /\ (ClientEmptyRealDir <=> "Client assets directory is empty" \in Msgs(report.warnings))
        /\ (KindOf(fs, DepTreePath) \in {"absent", "dangling"}
              <=> "node_modules not found" \in Msgs(report.warnings))
        /\ (KindOf(fs, DepTreePath) = "link"
              <=> "node_modules is a symlink" \in Msgs(report.warnings))
        /\ \A i \in 1..Len(problematicPaths) :
              SecretExists(i) <=> \E j \in 1..Len(report.warnings) :
                                     /\ report.warnings[j].msg = "Found env file in build output"
                                     /\ report.warnings[j].path = problematicPaths[i]
        /\ Msgs(report.errors) \subseteq FatalMsgs
        /\ ((EntryOk /\ EntryDirOk /\ ClientOk /\ ManifestOk) => report.valid /\ report.errors = <<>>)
        /\ (report.hasNodeModules <=> KindOf(fs, DepTreePath) \in {"file", "empty", "dir", "link"})

\* empty client directory, symlinked node_modules and a secret file at once, still valid
C4_Witness ==
    /\ Verified
    /\ ClientEmptyRealDir
    /\ KindOf(fs, DepTreePath) = "link"
    /\ \E i \in 1..Len(problematicPaths) : SecretExists(i)
    /\ report.valid /\ report.errors = <<>> /\ Len(report.warnings) = 3
    /\ report.hasNodeModules

----------------------------------------------------------------------------
(* validation.ts: package names, package.json parsing, dependency guard    *)

MAX_PACKAGE_JSON_SIZE == 100 * 1024
MAX_DEV_DEPENDENCIES == 1000
MAX_PACKAGE_NAME_LENGTH == 214

\* /^[a-z0-9]([a-z0-9._-]*[a-z0-9])?$/i
validPart(s) ==
    /\ Len(s) >= 1
    /\ s[1] \in AlnumChars
    /\ s[Len(s)] \in AlnumChars
    /\ AllIn(s, AlnumChars \cup {".", "_", "-"})

\* validatePackageName: the error it throws, NoError when it returns
validatePackageName(name) ==
    IF name = <<>> THEN "Package name must be a non-empty string"
    ELSE IF Len(name) > MAX_PACKAGE_NAME_LENGTH THEN "Package name too long"
    ELSE IF Includes(name, <<".", ".">>) \/ Includes(name, <<"/", ".", ".">>) \/ Includes(name, <<"\\">>)
    THEN "Invalid package name (path traversal attempt)"
    ELSE IF StartsWith(name, <<".">>) \/ StartsWith(name, <<"_">>)
    THEN "Invalid package name (cannot start with . or _)"
    ELSE IF StartsWith(name, <<"@">>)
    THEN LET parts == Split(SubSeq(name, 2, Len(name)))
         IN  IF Len(parts) # 2 \/ parts[1] = <<>> \/ parts[2] = <<>>
             THEN "Invalid scoped package name"
             ELSE IF ~validPart(parts[1]) \/ ~validPart(parts[2])
             THEN "Invalid scoped package name format"
             ELSE NoError
    ELSE IF ~validPart(name) THEN "Invalid package name format"
    ELSE NoError

\* A JSON value as JSON.parse returns it.  type "syntaxError" stands for text
\* that does not parse; an object carries its own top-level keys; a dependency
\* map lists its entries in key order, each with the type of its value, plus
\* `padding` further entries with well-formed names and string values that are
\* installed nowhere.
JsonUndefined == [type |-> "undefined", entries |-> <<>>, padding |-> 0]
JsonArray == [type |-> "array", entries |-> <<>>, padding |-> 0]
JsonMap(entries, padding) == [type |-> "object", entries |-> entries, padding |-> padding]
JsonValue(type, keys, deps, devDeps) ==
    [type |-> type, keys |-> keys, dependencies |-> deps, devDependencies |-> devDeps]

\* the test that looks at the container only, not at the values in it
isValidDependencyObject_IgnoresValues(obj) ==
    obj.type = "object"

\* isValidDependencyObject
isValidDependencyObject(obj) ==
    /\ obj.type = "object"
    /\ \A i \in 1..Len(obj.entries) : obj.entries[i].value = "string"

dangerousKeys == <<"__proto__", "constructor", "prototype">>

\* checkFileSize: statSync throws on a missing path, then the size ceiling
checkFileSize(f, path, size, maxSize) ==
    IF ~existsSync(f, path) THEN "ENOENT"
    ELSE IF size > maxSize THEN "File exceeds maximum size"
    ELSE NoError

\* safeParsePackageJson dropping the dangerous keys silently instead of rejecting them
safeParsePackageJson_DropsDangerousKeys(f, pj) ==
    LET pkgPath == ProjectPath(S_package_json)
        sizeError == checkFileSize(f, pkgPath, pj.size, MAX_PACKAGE_JSON_SIZE)
        fail(e, k) == [error |-> e, key |-> k,
                       value |-> [dependencies |-> JsonUndefined, devDependencies |-> JsonUndefined]]
    IN  IF sizeError # NoError THEN fail(sizeError, "")
        ELSE IF KindOf(f, pkgPath) = "dir" THEN fail("EISDIR", "")
        ELSE IF pj.json.type = "syntaxError" THEN fail("SyntaxError", "")
        ELSE IF pj.json.type # "object" THEN fail("Invalid package.json: must be an object", "")
        ELSE [error |-> NoError, key |-> "",
              value |-> [dependencies |-> IF isValidDependencyObject(pj.json.dependencies)
                                          THEN pj.json.dependencies ELSE JsonUndefined,
                         devDependencies |-> IF isValidDependencyObject(pj.json.devDependencies)
                                             THEN pj.json.devDependencies ELSE JsonUndefined]]

\* safeParsePackageJson(join(projectRoot, "package.json")): [error, key, value]
safeParsePackageJson(f, pj) ==
    LET pkgPath == ProjectPath(S_package_json)
        sizeError == checkFileSize(f, pkgPath, pj.size, MAX_PACKAGE_JSON_SIZE)
        found == SelectSeq(dangerousKeys, LAMBDA k : k \in pj.json.keys)
        fail(e, k) == [error |-> e, key |-> k,
                       value |-> [dependencies |-> JsonUndefined, devDependencies |-> JsonUndefined]]
    IN  IF sizeError # NoError THEN fail(sizeError, "")
        ELSE IF KindOf(f, pkgPath) = "dir" THEN fail("EISDIR", "")
        ELSE IF pj.json.type = "syntaxError" THEN fail("SyntaxError", "")
        ELSE IF pj.json.type # "object" THEN fail("Invalid package.json: must be an object", "")
        ELSE IF found # <<>> THEN fail("Security: package.json contains dangerous key", found[1])
        ELSE [error |-> NoError, key |-> "",
              value |-> [dependencies |-> IF isValidDependencyObject(pj.json.dependencies)
                                          THEN pj.json.dependencies ELSE JsonUndefined,
                         devDependencies |-> IF isValidDependencyObject(pj.json.devDependencies)
                                             THEN pj.json.devDependencies ELSE JsonUndefined]]

\* getNodeModulesPath
getNodeModulesPath(packageName) == ProjectPath2(S_node_modules, packageName)

\* JavaScript values handed in as allowDevDependencies
\* `fields` lists the property values of an object, in declaration order
JsUndefined == [type |-> "undefined", value |-> FALSE, fields |-> <<>>]
JsBoolean(b) == [type |-> "boolean", value |-> b, fields |-> <<>>]
JsString == [type |-> "string", value |-> FALSE, fields |-> <<>>]
JsObject(fields) == [type |-> "object", value |-> FALSE, fields |-> fields]

GuardReturn(reads) == [error |-> NoError, count |-> 0, dep |-> <<>>, reads |-> reads]
GuardThrow(e, n, dep, reads) == [error |-> e, count |-> n, dep |-> dep, reads |-> reads]

\* the filter stopping at the first installed devDependency instead of counting all
RECURSIVE FilterDevPresent_StopsAtFirst(_, _, _, _, _)
FilterDevPresent_StopsAtFirst(f, devDeps, i, present, reads) ==
    IF i > Len(devDeps) THEN [error |-> NoError, count |-> present, dep |-> <<>>, reads |-> reads]
    ELSE LET dep == devDeps[i]
             depPath == getNodeModulesPath(dep)
         IN  IF ~existsSync(f, depPath)
             THEN FilterDevPresent_StopsAtFirst(f, devDeps, i + 1, present, reads \cup {depPath})
             ELSE IF isSymlink(f, depPath)
             THEN GuardThrow("Security: devDependency is a symlink", 0, dep, reads \cup {depPath})
             ELSE [error |-> NoError, count |-> 1, dep |-> <<>>, reads |-> reads \cup {depPath}]

\* the devDependencies filter of assertNoDevDependenciesInstalled, from entry i on:
\* throws at the first symlinked install location, otherwise counts the present ones
RECURSIVE FilterDevPresent(_, _, _, _, _)
FilterDevPresent(f, devDeps, i, present, reads) ==
    IF i > Len(devDeps) THEN [error |-> NoError, count |-> present, dep |-> <<>>, reads |-> reads]
    ELSE LET dep == devDeps[i]
             depPath == getNodeModulesPath(dep)
         IN  IF ~StartsWith(depPath, S_node_modules)
             THEN GuardThrow("Security: package path escaped node_modules", 0, dep, reads)
             ELSE IF ~existsSync(f, depPath)
             THEN FilterDevPresent(f, devDeps, i + 1, present, reads \cup {depPath})
             ELSE IF isSymlink(f, depPath)
             THEN GuardThrow("Security: devDependency is a symlink", 0, dep, reads \cup {depPath})
             ELSE FilterDevPresent(f, devDeps, i + 1, present + 1, reads \cup {depPath})

\* the guard reading the manifest before it looks at the override
assertNoDevDependenciesInstalled_ParsesFirst(f, pj, allowDevDependencies) ==
    LET pkg == safeParsePackageJson(f, pj)
        reads0 == {ProjectPath(S_package_json)}
    IN  IF allowDevDependencies.type \notin {"undefined", "boolean"}
        THEN GuardThrow("allowDevDependencies must be a boolean", 0, <<>>, {})
        ELSE IF pkg.error # NoError THEN GuardThrow(pkg.error, 0, <<>>, reads0)
        ELSE IF allowDevDependencies.type = "boolean" /\ allowDevDependencies.value = TRUE
        THEN GuardReturn(reads0)
        ELSE LET map == pkg.value.devDependencies
                 devDeps == [i \in 1..Len(map.entries) |-> map.entries[i].name]
                 filtered == FilterDevPresent(f, devDeps, 1, 0, reads0)
             IN  IF filtered.error # NoError THEN filtered
                 ELSE IF filtered.count > 0
                 THEN GuardThrow("Security: devDependencies present in node_modules",
                                 filtered.count, <<>>, filtered.reads)
                 ELSE GuardReturn(filtered.reads)

\* assertNoDevDependenciesInstalled(projectRoot, allowDevDependencies):
\* [error, count, dep, reads]; reads are the paths it handed to node:fs
assertNoDevDependenciesInstalled(f, pj, allowDevDependencies) ==
    IF allowDevDependencies.type \notin {"undefined", "boolean"}
    THEN GuardThrow("allowDevDependencies must be a boolean", 0, <<>>, {})
    ELSE IF allowDevDependencies.type = "boolean" /\ allowDevDependencies.value = TRUE
    THEN GuardReturn({})
    ELSE
      LET pkg == safeParsePackageJson(f, pj)
          reads0 == {ProjectPath(S_package_json)}
          map == pkg.value.devDependencies
          devDeps == [i \in 1..Len(map.entries) |-> map.entries[i].name]
          length == Len(devDeps) + map.padding
          invalid == SelectSeq(devDeps, LAMBDA d : validatePackageName(d) # NoError)
      IN  IF pkg.error # NoError THEN GuardThrow(pkg.error, 0, <<>>, reads0)
          ELSE IF length = 0 THEN GuardReturn(reads0)
          ELSE IF length > MAX_DEV_DEPENDENCIES
          THEN GuardThrow("Security: Too many devDependencies", length, <<>>, reads0)
          ELSE IF invalid # <<>>
          THEN GuardThrow(validatePackageName(invalid[1]), 0, invalid[1], reads0)
          ELSE LET filtered == FilterDevPresent(f, devDeps, 1, 0, reads0)
               IN  IF filtered.error # NoError THEN filtered
                   ELSE IF filtered.count > 0
                   THEN GuardThrow("Security: devDependencies present in node_modules",
                                   filtered.count, <<>>, filtered.reads)
                   ELSE GuardReturn(filtered.reads)

----------------------------------------------------------------------------
(* Dependency guard: one call of assertNoDevDependenciesInstalled or of     *)
(* safeParsePackageJson on a project                                        *)

MaxDevDeps == 2   \* named devDependencies in one manifest (padding comes on top)

N_vitest == <<"v","i","t","e","s","t">>
N_types == <<"@","t","y","p","e","s">>
N_types_node == N_types \o S_slash \o <<"n","o","d","e">>
N_secret == <<".",".","/","s","e","c","r","e","t">>
DepNames == {N_vitest, N_types_node, N_secret}

\* sequences of distinct names, at most n long
RECURSIVE DistinctSeqs(_, _)
DistinctSeqs(names, n) ==
    IF n = 0 THEN {<<>>}
    ELSE LET shorter == DistinctSeqs(names, n - 1)
             longest == {t \in shorter : Len(t) = n - 1}
         IN  shorter \cup UNION {{Append(q, x) : x \in names \ {q[i] : i \in 1..Len(q)}} : q \in longest}

DevDependencyValues ==
    {JsonUndefined, JsonArray,
     JsonMap(<<[name |-> N_vitest, value |-> "number"]>>, 0)}
    \cup {JsonMap([i \in 1..Len(q) |-> [name |-> q[i], value |-> "string"]], pad) :
            q \in DistinctSeqs(DepNames, MaxDevDeps) \ {<<>>},
            pad \in {0, MAX_DEV_DEPENDENCIES - 1}}

KeySets == {{"name"}, {"name", "__proto__"}, {"constructor", "name"}, {"name", "prototype"},
            {"__proto__", "constructor", "prototype"}}

JsonValues ==
    {JsonValue("syntaxError", {}, JsonUndefined, JsonUndefined),
     JsonValue("array", {}, JsonUndefined, JsonUndefined)}
    \cup {JsonValue("object", IF dd = JsonUndefined THEN ks ELSE ks \cup {"devDependencies"},
                    JsonUndefined, dd) : ks \in KeySets, dd \in DevDependencyValues}

\* the contents package.json can have, given what kind of node it is
PackageJsonContents(kind) ==
    IF kind \in {"file", "link"}
    THEN {[size |-> sz, json |-> j] :
            sz \in {MAX_PACKAGE_JSON_SIZE, MAX_PACKAGE_JSON_SIZE + 1}, j \in JsonValues}
    ELSE {NoPackageJson}

GuardItems ==
    << [path |-> S_package_json, kinds |-> {"absent", "file", "empty", "dir", "link"}],
       [path |-> S_node_modules, kinds |-> {"absent", "dir"}],
       [path |-> getNodeModulesPath(N_vitest), kinds |-> {"absent", "dir", "link", "dangling"}],
       [path |-> getNodeModulesPath(N_types), kinds |-> {"absent", "dir"}],
       [path |-> getNodeModulesPath(N_types_node), kinds |-> {"absent", "dir", "link", "dangling"}] >>

AllowArgs == {JsUndefined, JsBoolean(TRUE), JsBoolean(FALSE), JsString,
              JsObject(<<JsBoolean(TRUE), JsUndefined>>)}

InitGuard ==
    /\ op = "none"
    /\ fs \in FsExtend({EmptyFs}, GuardItems, {})
    /\ packageJson \in PackageJsonContents(KindOf(fs, S_package_json))
    /\ configFiles = NoConfigFiles
    /\ installed = NoInstalled
    /\ layout = DEFAULTS
    /\ overrides = NoOverrides
    /\ allowArg = NoAllowArg
    /\ firemixConfig = NoFiremixConfig
    /\ report = NewResult
    /\ applied = NoApplied
    /\ guard = NoGuard
    /\ parsed = NoParsed
    /\ gen = NoGen
    /\ writes = 0
    /\ toolRun = NoRun
    /\ cliArgs = NoCliArgs
    /\ plugin = NoPlugin
    /\ resolvedVersion = NoRemixVersion
    /\ bundle = NoBundle
    /\ runConfigResult = NoRunConfigResult
    /\ runConfigArg = NoRunConfig
    /\ nameChecks = NoNameChecks
    /\ nameArg = NoName
    /\ resolution = NoResolved

AssertNoDevDependenciesInstalled ==
    /\ op = "none"
    /\ \E a \in AllowArgs :
          /\ allowArg' = a
          /\ guard' = assertNoDevDependenciesInstalled(fs, packageJson, a)
    /\ op' = "assertNoDevDependenciesInstalled"
    /\ UNCHANGED <<toolVars, resolvedVersion, validatorVars, bundle, resolution, fs, packageJson, configFiles, installed, layout, overrides, firemixConfig, report, applied, parsed, gen>>

SafeParsePackageJson ==
    /\ op = "none"
    /\ parsed' = safeParsePackageJson(fs, packageJson)
    /\ op' = "safeParsePackageJson"
    /\ UNCHANGED <<toolVars, resolvedVersion, validatorVars, bundle, resolution, fs, packageJson, configFiles, installed, layout, overrides, allowArg, firemixConfig, report,
                   applied, guard, gen>>

NextGuard == AssertNoDevDependenciesInstalled \/ SafeParsePackageJson

SpecGuard == InitGuard /\ [][NextGuard]_vars

----------------------------------------------------------------------------
(* Claims about the dependency guard (checked under SpecGuard)             *)

Guarded == op = "assertNoDevDependenciesInstalled"
Parsed == op = "safeParsePackageJson"

OverrideEnabled == allowArg = JsBoolean(TRUE)
OverrideNotEnabled == allowArg \in {JsUndefined, JsBoolean(FALSE)}

\* package.json can be read and parses to an object
ManifestIsObject ==
    /\ KindOf(fs, ManifestPath) \in {"file", "link"}
    /\ packageJson.json.type = "object"

HasDangerousKey ==
    packageJson.json.keys \cap {"__proto__", "constructor", "prototype"} # {}

\* a manifest safeParsePackageJson accepts, whose devDependencies (if any) is a
\* flat string-to-string map
WellFormedManifest ==
    /\ ManifestIsObject
    /\ packageJson.size <= MAX_PACKAGE_JSON_SIZE
    /\ ~HasDangerousKey
    /\ packageJson.json.devDependencies.type \in {"undefined", "object"}
    /\ \A i \in 1..Len(packageJson.json.devDependencies.entries) :
          packageJson.json.devDependencies.entries[i].value = "string"

Declared == packageJson.json.devDependencies.entries
DeclaredCount == Len(Declared) + packageJson.json.devDependencies.padding

ValidNames == \A i \in 1..Len(Declared) : validatePackageName(Declared[i].name) = NoError

InstallKind(i) == KindOf(fs, S_node_modules \o S_slash \o Declared[i].name)

NoSymlinkedInstall == \A i \in 1..Len(Declared) : InstallKind(i) \notin {"link", "dangling"}

InstalledDevDeps == {i \in 1..Len(Declared) : InstallKind(i) \in RealKinds}

C7_Pre == Guarded /\ OverrideNotEnabled /\ WellFormedManifest /\ ValidNames /\ NoSymlinkedInstall

C8_OverrideSkipsInspection ==
    (Guarded /\ OverrideEnabled) => (guard.error = NoError /\ guard.reads = {})

\* override on a manifest with a dangerous key and a symlinked devDependency
C8_Witness ==
    /\ Guarded /\ OverrideEnabled
    /\ ManifestIsObject /\ HasDangerousKey
    /\ \E i \in 1..Len(Declared) : InstallKind(i) = "link"
    /\ guard.error = NoError

\* C9: safeParsePackageJson never returns a result for a manifest whose parsed
\* top-level object has an own __proto__, constructor or prototype key: once
\* the file is within the size ceiling it fails with the dangerous-key error
\* naming such a key; the guard without override fails on such a manifest.
C9_DangerousKeyRejected ==
    /\ (Parsed /\ ManifestIsObject /\ HasDangerousKey) =>
          /\ parsed.error # NoError
          /\ (packageJson.size <= MAX_PACKAGE_JSON_SIZE =>
                /\ parsed.error = "Security: package.json contains dangerous key"
                /\ parsed.key \in packageJson.json.keys \cap {"__proto__", "constructor", "prototype"})
    /\ (Guarded /\ ~OverrideEnabled /\ ManifestIsObject /\ HasDangerousKey) =>
          guard.error # NoError

\* a manifest with an own __proto__ key and valid devDependencies is rejected
C9_Witness ==
    /\ Parsed /\ ManifestIsObject
    /\ "__proto__" \in packageJson.json.keys
    /\ packageJson.size <= MAX_PACKAGE_JSON_SIZE
    /\ Len(Declared) >= 1
    /\ parsed.error = "Security: package.json contains dangerous key"
    /\ parsed.key = "__proto__"

----------------------------------------------------------------------------
(* Config overrides: one call of applyConfigOverrides on a resolved layout *)

MaxNameLen == 2   \* length of the override strings that are enumerated

NameChars == {"d", ".", "/", " "}

RECURSIVE StringsUpTo(_, _)
StringsUpTo(chars, n) ==
    IF n = 0 THEN {<<>>}
    ELSE LET shorter == StringsUpTo(chars, n - 1)
         IN  shorter \cup {Append(t, c) : t \in {q \in shorter : Len(q) = n - 1}, c \in chars}

S_d == <<"d">>
S_main_js == <<"m","a","i","n",".","j","s">>
S_src == <<"s","r","c">>

\* what the extraction can find in a project's config file
ExtractedConfigs ==
    {[EmptyPartial EXCEPT !.buildDirectory = b, !.serverBuildFile = sf, !.appDirectory = a] :
        b \in {Undefined, S_d, S_d \o S_slash \o S_d}, sf \in {Undefined, S_main_js},
        a \in {Undefined, S_src}}
    \cup {[EmptyPartial EXCEPT !.serverBuildPath = sp, !.clientBuildDir = c] :
            sp \in {Undefined, S_build \o S_slash \o S_index_js, S_index_js, S_d \o S_slash \o S_index_js,
                    <<".", ".", "/", "x">>, <<"/", "x">>},
            c \in {Undefined, S_public_build, S_d \o S_slash \o S_client, S_d}}

\* the layouts resolveRemixConfig returns for them
ResolvedLayouts ==
    {computeDerivedPaths(c).value : c \in {x \in ExtractedConfigs : computeDerivedPaths(x).error = NoError}}

OverrideValues ==
    {[NoOverrides EXCEPT !.buildDirectory = b, !.serverBuildFile = sf, !.clientBuildDir = c,
                         !.serverBuildPath = sp, !.appDirectory = a] :
        b \in {Absent, Undefined} \cup StringsUpTo(NameChars, MaxNameLen),
        sf \in {Absent, Undefined, <<>>, S_main_js, <<".", ".">>},
        c \in {Absent, Undefined, S_public_build},
        sp \in {Absent, S_build \o S_slash \o S_index_js},
        a \in {Absent, S_src}}

InitConfig ==
    /\ op = "none"
    /\ fs = EmptyFs
    /\ packageJson = NoPackageJson
    /\ configFiles = NoConfigFiles
    /\ installed = NoInstalled
    /\ layout \in ResolvedLayouts
    /\ overrides = NoOverrides
    /\ allowArg = NoAllowArg
    /\ firemixConfig = NoFiremixConfig
    /\ report = NewResult
    /\ applied = NoApplied
    /\ guard = NoGuard
    /\ parsed = NoParsed
    /\ gen = NoGen
    /\ writes = 0
    /\ toolRun = NoRun
    /\ cliArgs = NoCliArgs
    /\ plugin = NoPlugin
    /\ resolvedVersion = NoRemixVersion
    /\ bundle = NoBundle
    /\ runConfigResult = NoRunConfigResult
    /\ runConfigArg = NoRunConfig
    /\ nameChecks = NoNameChecks
    /\ nameArg = NoName
    /\ resolution = NoResolved

ApplyConfigOverrides ==
    /\ op = "none"
    /\ \E ov \in OverrideValues :
          /\ overrides' = ov
          /\ applied' = applyConfigOverrides(layout, ov)
    /\ op' = "applyConfigOverrides"
    /\ UNCHANGED <<toolVars, resolvedVersion, validatorVars, bundle, resolution, fs, packageJson, configFiles, installed, layout, allowArg, firemixConfig,
                   report, guard, parsed, gen>>

NextConfig == ApplyConfigOverrides

SpecConfig == InitConfig /\ [][NextConfig]_vars

----------------------------------------------------------------------------
(* Claims about applyConfigOverrides (checked under SpecConfig)            *)

Applied == op = "applyConfigOverrides"

B1 == layout.buildDirectory
B2 == overrides.buildDirectory

\* the override names a valid build directory B2 # B1 and no client directory
C10_Pre ==
    /\ Applied
    /\ Truthy(B2) /\ sanitizeDirectoryName(B2) = NoError
    /\ B2 # B1
    /\ overrides.clientBuildDir \in {Absent, Undefined}

\* C10: no override staleness: overriding buildDirectory with a valid B2 # B1 and
\* no clientBuildDir returns buildDirectory = B2, clientBuildDir = B2/client and
\* serverBuildPath = B2/server/<serverBuildFile>; nothing comes from B1 or
\* from the input clientBuildDir.  With no other field overridden the call returns.
C10_NoOverrideStaleness ==
    C10_Pre =>
        /\ applied.error = NoError =>
              /\ applied.value.buildDirectory = B2
              /\ applied.value.clientBuildDir = B2 \o S_slash \o S_client
              /\ StartsWith(applied.value.serverBuildPath, B2 \o S_slash \o S_server \o S_slash)
              /\ applied.value.serverBuildPath =
                    B2 \o S_slash \o S_server \o S_slash \o applied.value.serverBuildFile
        /\ (\A f \in ConfigFields \ {"buildDirectory"} : overrides[f] = Absent) =>
              /\ applied.error = NoError
              /\ applied.value.serverBuildFile = layout.serverBuildFile
              /\ applied.value.appDirectory = layout.appDirectory

\* a legacy layout with its own assets directory, overridden to another build directory
C10_Witness ==
    /\ C10_Pre
    /\ \A f \in ConfigFields \ {"buildDirectory"} : overrides[f] = Absent
    /\ layout.clientBuildDir = S_public_build
    /\ layout.serverBuildPath = S_build \o S_slash \o S_index_js
    /\ applied.error = NoError
    /\ applied.value.clientBuildDir = S_d \o S_slash \o S_client
    /\ applied.value.serverBuildPath = S_d \o S_slash \o S_server \o S_slash \o S_index_js

----------------------------------------------------------------------------
(* version.ts                                                              *)

VERSION_MAX_PACKAGE_JSON_SIZE == 50 * 1024

N_remix_run == <<"@","r","e","m","i","x","-","r","u","n">>
remixPackages ==
    << N_remix_run \o S_slash \o <<"n","o","d","e">>,
       N_remix_run \o S_slash \o <<"r","e","a","c","t">>,
       N_remix_run \o S_slash \o <<"d","e","v">>,
       N_remix_run \o S_slash \o <<"s","e","r","v","e">>,
       N_remix_run \o S_slash \o <<"e","x","p","r","e","s","s">> >>

\* An installed package.json: [kind, size, type, version]; version is the
\* string under "version", Undefined when there is none or it is not a string.
\* safeReadPackageJson: [isNull, version]
safeReadPackageJson(manifest) ==
    IF manifest.kind \in {"absent", "dangling"} THEN [isNull |-> TRUE, version |-> Undefined]
    ELSE IF manifest.kind = "link" THEN [isNull |-> TRUE, version |-> Undefined]
    ELSE IF manifest.size > VERSION_MAX_PACKAGE_JSON_SIZE THEN [isNull |-> TRUE, version |-> Undefined]
    ELSE IF manifest.type # "object" THEN [isNull |-> TRUE, version |-> Undefined]
    ELSE [isNull |-> FALSE, version |-> manifest.version]

\* getResolvedPackageVersion for the i-th of remixPackages
getResolvedPackageVersion(inst, i) ==
    LET packageName == remixPackages[i]
        pkgPath == getNodeModulesPath(packageName) \o S_slash \o S_package_json
        pkg == safeReadPackageJson(inst.packages[i])
    IN  IF ~Truthy(packageName) THEN Undefined
        ELSE IF Includes(packageName, <<".", ".">>) \/ Includes(packageName, <<"\\">>) THEN Undefined
        ELSE IF ~StartsWith(pkgPath, S_node_modules) THEN Undefined
        ELSE IF pkg.isNull THEN Undefined
        ELSE pkg.version

\* getResolvedRemixVersion: the loop over remixPackages from candidate i on
RECURSIVE getResolvedRemixVersionFrom(_, _)
getResolvedRemixVersionFrom(inst, i) ==
    IF i > Len(remixPackages) THEN Undefined
    ELSE IF Truthy(getResolvedPackageVersion(inst, i)) THEN getResolvedPackageVersion(inst, i)
    ELSE getResolvedRemixVersionFrom(inst, i + 1)

\* the loop that keeps the last resolvable candidate instead of the first
getResolvedRemixVersion_LastWins(inst) ==
    LET hits == {i \in 1..Len(remixPackages) : Truthy(getResolvedPackageVersion(inst, i))}
    IN  IF hits = {} THEN Undefined
        ELSE getResolvedPackageVersion(inst, CHOOSE i \in hits : \A j \in hits : j <= i)

getResolvedRemixVersion(inst) == getResolvedRemixVersionFrom(inst, 1)

V_0_0_0 == <<"0",".","0",".","0">>

\* getAdapterVersion
getAdapterVersion(inst) ==
    LET pkg == safeReadPackageJson(inst.adapter)
    IN  IF ~pkg.isNull /\ Truthy(pkg.version) THEN pkg.version ELSE V_0_0_0

----------------------------------------------------------------------------
(* validation.ts: build directory and run configuration                    *)

\* sanitizeBuildDir: the error it throws, NoError when it returns buildDir
sanitizeBuildDir(buildDir) ==
    IF ~Truthy(buildDir) THEN "Build directory must be a non-empty string"
    ELSE IF ~AllIn(buildDir, AlnumChars \cup {".", "_", "-"}) THEN "Invalid build directory name"
    ELSE IF buildDir = S_dot \/ buildDir = <<".", ".">> THEN "Build directory cannot be . or .."
    ELSE NoError

RunConfigFields == {"minInstances", "maxInstances", "concurrency", "cpu", "memoryMiB"}

RunConfigDefaults ==
    [minInstances |-> 0, maxInstances |-> 10, concurrency |-> 80, cpu |-> 1, memoryMiB |-> 512]

\* Math.floor on the integers run configurations are given as
MathFloor(n) == n

\* the range tests applied to the supplied fields only, min against max only when both are supplied
validateRunConfig_ChecksSuppliedOnly(config) ==
    LET merged == [f \in RunConfigFields |->
                      IF f \in config.supplied THEN config.values[f] ELSE RunConfigDefaults[f]]
        has(f) == f \in config.supplied
        error ==
            IF has("minInstances") /\ (merged.minInstances < 0 \/ merged.minInstances > 100)
            THEN "minInstances must be between 0 and 100"
            ELSE IF has("maxInstances") /\ (merged.maxInstances < 1 \/ merged.maxInstances > 1000)
            THEN "maxInstances must be between 1 and 1000"
            ELSE IF has("minInstances") /\ has("maxInstances") /\ merged.minInstances > merged.maxInstances
            THEN "minInstances cannot exceed maxInstances"
            ELSE IF has("concurrency") /\ (merged.concurrency < 1 \/ merged.concurrency > 1000)
            THEN "concurrency must be between 1 and 1000"
            ELSE IF has("cpu") /\ (merged.cpu < 1 \/ merged.cpu > 8)
            THEN "cpu must be between 1 and 8"
            ELSE IF has("memoryMiB") /\ (merged.memoryMiB < 128 \/ merged.memoryMiB > 32768)
            THEN "memoryMiB must be between 128 and 32768"
            ELSE NoError
    IN  [error |-> error, value |-> [f \in RunConfigFields |-> MathFloor(merged[f])]]

\* validateRunConfig: [error, value].  A Partial<RunConfig> is the set of
\* supplied fields with their values.
validateRunConfig(config) ==
    LET merged == [f \in RunConfigFields |->
                      IF f \in config.supplied THEN config.values[f] ELSE RunConfigDefaults[f]]
        error ==
            IF merged.minInstances < 0 \/ merged.minInstances > 100
            THEN "minInstances must be between 0 and 100"
            ELSE IF merged.maxInstances < 1 \/ merged.maxInstances > 1000
            THEN "maxInstances must be between 1 and 1000"
            ELSE IF merged.minInstances > merged.maxInstances
            THEN "minInstances cannot exceed maxInstances"
            ELSE IF merged.concurrency < 1 \/ merged.concurrency > 1000
            THEN "concurrency must be between 1 and 1000"
            ELSE IF merged.cpu < 1 \/ merged.cpu > 8
            THEN "cpu must be between 1 and 8"
            ELSE IF merged.memoryMiB < 128 \/ merged.memoryMiB > 32768
            THEN "memoryMiB must be between 128 and 32768"
            ELSE NoError
    IN  [error |-> error, value |-> [f \in RunConfigFields |-> MathFloor(merged[f])]]

----------------------------------------------------------------------------
(* bundle.ts                                                               *)

S_remix_serve == S_node_modules \o <<"/",".","b","i","n","/","r","e","m","i","x","-","s","e","r","v","e">>

quoteIfNeeded(value) ==
    IF Includes(value, <<" ">>) THEN <<"\"">> \o value \o <<"\"">> ELSE value

\* the custom command passed through the quoting the default operands get
generateRunCommand_QuotesCustom(config, customCommand) ==
    IF Truthy(customCommand) THEN quoteIfNeeded(customCommand)
    ELSE quoteIfNeeded(S_remix_serve) \o <<" ">> \o quoteIfNeeded(config.serverBuildPath)

\* generateRunCommand
generateRunCommand(config, customCommand) ==
    IF Truthy(customCommand) THEN customCommand
    ELSE quoteIfNeeded(S_remix_serve) \o <<" ">> \o quoteIfNeeded(config.serverBuildPath)

\* the directory cut at the first "/" of the path instead of the last one
getServerBuildDir_FirstSlash(serverBuildPath) ==
    LET hits == {i \in 1..Len(serverBuildPath) : serverBuildPath[i] = "/"}
    IN  IF hits = {} THEN S_dot
        ELSE SubSeq(serverBuildPath, 1, (CHOOSE i \in hits : \A j \in hits : i <= j) - 1)

\* getServerBuildDir
getServerBuildDir(serverBuildPath) ==
    LET idx == LastIndexOf(serverBuildPath, "/")
    IN  IF idx = 0 THEN S_dot ELSE SubSeq(serverBuildPath, 1, idx - 1)

S_cannot_resolve == "Could not resolve Remix version from node_modules"

GenThrow(error, stage, remixConfig, verifierRan, guardRan, guardArg, guardReads) ==
    [error |-> error, stage |-> stage, remixConfig |-> remixConfig,
     verifierRan |-> verifierRan, guardRan |-> guardRan, guardArg |-> guardArg,
     guardReads |-> guardReads, warnings |-> <<>>, bundle |-> NoBundle]

\* 7. Generate the bundle
MakeBundle(remixConfig, runConfig, runCommand, adapterVersion, remixVersion) ==
    [version |-> "v1",
     runConfig |-> [runCommand |-> generateRunCommand(remixConfig, runCommand),
                    concurrency |-> runConfig.concurrency,
                    cpu |-> runConfig.cpu,
                    memoryMiB |-> runConfig.memoryMiB,
                    minInstances |-> runConfig.minInstances,
                    maxInstances |-> runConfig.maxInstances],
     outputFiles |->
        [serverApp |-> [include |-> << getServerBuildDir(remixConfig.serverBuildPath),
                                       remixConfig.clientBuildDir,
                                       S_package_json,
                                       S_node_modules >>],
         staticAssets |-> [present |-> FALSE, include |-> <<>>]],
     metadata |-> [adapterPackageName |-> "firemix", adapterVersion |-> adapterVersion,
                   framework |-> "remix", frameworkVersion |-> remixVersion]]

\* the second argument generateBundleWithMetadata hands to the guard
GuardArgument(config) == JsObject(<<config.allowDevDependencies, config.allowSymlinks>>)

\* generateBundleWithMetadata: [error, stage, remixConfig, verifierRan, guardRan,
\* guardArg, guardReads, warnings, bundle]; bundle is meaningful when error = NoError
generateBundleWithMetadata(f, pj, files, inst, config) ==
    LET resolved == resolveRemixConfig(files)
        buildDirectory == IF Truthy(config.buildDirectory) THEN config.buildDirectory
                          ELSE config.buildDir
        sanitizeError == IF Truthy(buildDirectory) THEN sanitizeBuildDir(buildDirectory) ELSE NoError
        overridden ==
            IF Truthy(buildDirectory)
            THEN applyConfigOverrides(resolved.value,
                    [NoOverrides EXCEPT !.buildDirectory = buildDirectory,
                                        !.serverBuildFile = config.serverBuildFile])
            ELSE IF Truthy(config.serverBuildFile)
            THEN applyConfigOverrides(resolved.value,
                    [NoOverrides EXCEPT !.serverBuildFile = config.serverBuildFile])
            ELSE [error |-> NoError, field |-> "none", value |-> resolved.value]
        remixConfig == overridden.value
        shouldVerify == config.verify # JsBoolean(FALSE)
        verification == verifyBuildOutput(f, remixConfig)
        verifyWarnings == IF shouldVerify THEN verification.warnings ELSE <<>>
        runConfig == validateRunConfig(config.runConfig)
        guardArg == GuardArgument(config)
        guarded == assertNoDevDependenciesInstalled(f, pj, guardArg)
        adapterVersion == getAdapterVersion(inst)
        remixVersion == getResolvedRemixVersion(inst)
        versionWarnings == IF ~Truthy(remixVersion)
                           THEN <<[msg |-> S_cannot_resolve, path |-> <<>>]>> ELSE <<>>
    IN  IF resolved.error # NoError
        THEN GenThrow(resolved.error, "resolveRemixConfig", EmptyPartial, FALSE, FALSE, JsUndefined, {})
        ELSE IF sanitizeError # NoError
        THEN GenThrow(sanitizeError, "sanitizeBuildDir", resolved.value, FALSE, FALSE, JsUndefined, {})
        ELSE IF overridden.error # NoError
        THEN GenThrow(overridden.error, "applyConfigOverrides", resolved.value, FALSE, FALSE, JsUndefined, {})
        ELSE IF shouldVerify /\ ~verification.valid
        THEN GenThrow("Build verification failed", "verifyBuildOutput", remixConfig, TRUE, FALSE,
                      JsUndefined, {})
        ELSE IF runConfig.error # NoError
        THEN GenThrow(runConfig.error, "validateRunConfig", remixConfig, shouldVerify, FALSE,
                      JsUndefined, {})
        ELSE IF guarded.error # NoError
        THEN GenThrow(guarded.error, "assertNoDevDependenciesInstalled", remixConfig, shouldVerify,
                      TRUE, guardArg, guarded.reads)
        ELSE [error |-> NoError, stage |-> "none", remixConfig |-> remixConfig,
              verifierRan |-> shouldVerify, guardRan |-> TRUE, guardArg |-> guardArg,
              guardReads |-> guarded.reads,
              warnings |-> verifyWarnings \o versionWarnings,
              bundle |-> MakeBundle(remixConfig, runConfig.value, config.runCommand,
                                    adapterVersion, remixVersion)]

----------------------------------------------------------------------------
(* Bundle generation: one call of generateBundleWithMetadata on a project  *)

ViteFile(buildDirectory) ==
    [exists |-> TRUE, size |-> 1,
     literals |-> [NoLiterals EXCEPT !["buildDirectory"] = buildDirectory]]

LegacyFile(serverBuildPath, assetsBuildDirectory) ==
    [exists |-> TRUE, size |-> 1,
     literals |-> [NoLiterals EXCEPT !["serverBuildPath"] = serverBuildPath,
                                     !["assetsBuildDirectory"] = assetsBuildDirectory]]

\* no config file; a vite config naming build directory "d"; a vite config
\* nothing can be read from; a legacy config with a flat server path
GenConfigFiles ==
    {NoConfigFiles,
     [NoConfigFiles EXCEPT !["vite.config.ts"] = ViteFile(S_d)],
     [NoConfigFiles EXCEPT !["vite.config.js"] = ViteFile(Undefined)],
     [NoConfigFiles EXCEPT !["remix.config.js"] =
         LegacyFile(S_build \o S_slash \o S_index_js, S_public_build)]}

\* the layouts a build may have been written for: the resolved one, or the
\* one the build directory option "d" selects
BuiltLayouts(files) ==
    {resolveRemixConfig(files).value,
     applyConfigOverrides(resolveRemixConfig(files).value,
                          [NoOverrides EXCEPT !.buildDirectory = S_d]).value}

GenItems(lay) ==
    LET serverDir == ProjectPath(ServerDirRelative(lay.serverBuildPath))
        clientDir == ProjectPath(lay.clientBuildDir)
    IN  << [path |-> serverDir, kinds |-> {"absent", "dir"}],
           [path |-> ProjectPath(lay.serverBuildPath), kinds |-> {"absent", "file"}],
           [path |-> clientDir, kinds |-> {"absent", "dir"}],
           [path |-> clientDir \o S_slash \o S_assets, kinds |-> {"absent", "dir"}],
           [path |-> S_package_json, kinds |-> {"absent", "file"}],
           [path |-> S_node_modules, kinds |-> {"absent", "dir"}],
           [path |-> getNodeModulesPath(N_vitest), kinds |-> {"absent", "dir"}] >>

GenPackageJsons(kind) ==
    IF kind = "file"
    THEN {[size |-> 1, json |-> j] : j \in
            {JsonValue("object", {"name"}, JsonUndefined, JsonUndefined),
             JsonValue("object", {"name", "devDependencies"}, JsonUndefined,
                       JsonMap(<<[name |-> N_vitest, value |-> "string"]>>, 0)),
             JsonValue("object", {"name", "__proto__"}, JsonUndefined, JsonUndefined)}}
    ELSE {NoPackageJson}

V_2_8_1 == <<"2",".","8",".","1">>
V_2_9_0 == <<"2",".","9",".","0">>
V_1_0_0 == <<"1",".","0",".","0">>

InstalledManifest(version) == [kind |-> "file", size |-> 1, type |-> "object", version |-> version]

\* what is installed under node_modules/@remix-run, given what node_modules is
GenInstalled(kind) ==
    LET adapter == InstalledManifest(V_1_0_0)
    IN  IF kind = "dir"
        THEN {[packages |-> <<n, r, NoManifest, NoManifest, NoManifest>>, adapter |-> adapter] :
                n \in {NoManifest, InstalledManifest(V_2_8_1)},
                r \in {NoManifest, InstalledManifest(V_2_9_0)}}
        ELSE {[NoInstalled EXCEPT !.adapter = adapter]}

RunConfigs ==
    {NoRunConfig,
     [NoRunConfig EXCEPT !.supplied = {"cpu"}, !.values.cpu = 2],
     [NoRunConfig EXCEPT !.supplied = {"minInstances"}, !.values.minInstances = 20]}

FiremixConfigs ==
    {[NoFiremixConfig EXCEPT !.buildDirectory = b[1], !.buildDir = b[2],
                             !.serverBuildFile = sf, !.runCommand = rc, !.runConfig = run,
                             !.allowDevDependencies = allow, !.verify = v] :
        b \in {<<Undefined, Undefined>>, <<S_d, Undefined>>, <<Undefined, S_d>>,
               <<<<".", ".">>, Undefined>>},
        sf \in {Undefined, S_main_js},
        rc \in {Undefined, <<"x">>},
        run \in RunConfigs,
        allow \in {JsUndefined, JsBoolean(TRUE), JsBoolean(FALSE)},
        v \in {JsUndefined, JsBoolean(TRUE), JsBoolean(FALSE)}}

InitGen ==
    /\ op = "none"
    /\ configFiles \in GenConfigFiles
    /\ \E built \in BuiltLayouts(configFiles) : fs \in FsExtend({EmptyFs}, GenItems(built), {})
    /\ packageJson \in GenPackageJsons(KindOf(fs, S_package_json))
    /\ installed \in GenInstalled(KindOf(fs, S_node_modules))
    /\ layout = DEFAULTS
    /\ overrides = NoOverrides
    /\ allowArg = NoAllowArg
    /\ firemixConfig = NoFiremixConfig
    /\ report = NewResult
    /\ applied = NoApplied
    /\ guard = NoGuard
    /\ parsed = NoParsed
    /\ gen = NoGen
    /\ writes = 0
    /\ toolRun = NoRun
    /\ cliArgs = NoCliArgs
    /\ plugin = NoPlugin
    /\ resolvedVersion = NoRemixVersion
    /\ bundle = NoBundle
    /\ runConfigResult = NoRunConfigResult
    /\ runConfigArg = NoRunConfig
    /\ nameChecks = NoNameChecks
    /\ nameArg = NoName
    /\ resolution = NoResolved

GenerateBundleWithMetadata ==
    /\ op = "none"
    /\ \E config \in FiremixConfigs :
          /\ firemixConfig' = config
          /\ gen' = generateBundleWithMetadata(fs, packageJson, configFiles, installed, config)
    /\ op' = "generateBundleWithMetadata"
    /\ UNCHANGED <<toolVars, resolvedVersion, validatorVars, bundle, resolution, fs, packageJson, configFiles, installed, layout, overrides, allowArg,
                   report, applied, guard, parsed>>

NextGen == GenerateBundleWithMetadata

SpecGen == InitGen /\ [][NextGen]_vars

----------------------------------------------------------------------------
(* Claims about generateBundleWithMetadata (checked under SpecGen)         *)

Generated == op = "generateBundleWithMetadata"

VerifyDisabled == firemixConfig.verify = JsBoolean(FALSE)

\* the steps before verification went through, so gen.remixConfig is the layout to verify
ReachedVerification == gen.stage \notin {"resolveRemixConfig", "sanitizeBuildDir", "applyConfigOverrides"}

BuildOutputValid == verifyBuildOutput(fs, gen.remixConfig).valid

\* nothing but the build output stands in the way of a manifest: the run
\* configuration is in range and the caller allows installed devDependencies
OtherwiseAcceptable ==
    /\ ReachedVerification
    /\ validateRunConfig(firemixConfig.runConfig).error = NoError
    /\ firemixConfig.allowDevDependencies = JsBoolean(TRUE)

\* C5: a manifest is returned only if verification passed or was disabled; with
\* verify not false and an invalid report generation fails with 'Build
\* verification failed' and no manifest; with verify false the verifier is not
\* run and missing build output does not make generation fail.
C5_VerificationGate ==
    Generated =>
        /\ gen.error = NoError => (VerifyDisabled \/ BuildOutputValid)
        /\ (~VerifyDisabled /\ ReachedVerification /\ ~BuildOutputValid) =>
              /\ gen.error = "Build verification failed"
              /\ gen.bundle = NoBundle
        /\ VerifyDisabled =>
              /\ ~gen.verifierRan
              /\ gen.error # "Build verification failed"
              /\ (~BuildOutputValid /\ OtherwiseAcceptable) => gen.error = NoError

\* C6: allowDevDependencies reaches the guard with its meaning intact: with
\* allowDevDependencies = true generation succeeds on a project whose build
\* output is valid, the guard not rejecting the call; with false or omitted the
\* guard inspects the project's devDependencies.
C6_OptionReachesGuard ==
    Generated =>
        /\ gen.guardRan => gen.guardArg = firemixConfig.allowDevDependencies
        /\ (BuildOutputValid /\ OtherwiseAcceptable) =>
              /\ gen.stage # "assertNoDevDependenciesInstalled"
              /\ gen.error = NoError
        /\ (gen.guardRan /\ firemixConfig.allowDevDependencies \in {JsUndefined, JsBoolean(FALSE)}) =>
              ProjectPath(S_package_json) \in gen.guardReads

\* what the code does instead: every call that gets as far as the guard is rejected by it
GuardAlwaysRejects ==
    Generated /\ gen.stage \notin {"resolveRemixConfig", "sanitizeBuildDir", "applyConfigOverrides",
                                   "verifyBuildOutput", "validateRunConfig"} =>
        /\ gen.error = "allowDevDependencies must be a boolean"
        /\ gen.guardArg.type = "object"

----------------------------------------------------------------------------
(* Claims about recomputation in applyConfigOverrides (checked under SpecConfig) *)

Recomputes == Truthy(overrides.buildDirectory) \/ Truthy(overrides.serverBuildFile)

\* the override consists of buildDirectory and/or serverBuildFile, each a non-empty string
OnlyBaseFieldsOverridden ==
    /\ Recomputes
    /\ overrides.buildDirectory = Absent \/ Truthy(overrides.buildDirectory)
    /\ overrides.serverBuildFile = Absent \/ Truthy(overrides.serverBuildFile)
    /\ \A f \in ConfigFields \ {"buildDirectory", "serverBuildFile"} : overrides[f] = Absent

DerivedServerPath(l) == l.buildDirectory \o S_slash \o S_server \o S_slash \o l.serverBuildFile
DerivedClientDir(l) == l.buildDirectory \o S_slash \o S_client

\* C11 as stated: an override of buildDirectory or of serverBuildFile returns a
\* layout with serverBuildPath = {buildDirectory}/server/{serverBuildFile} and
\* clientBuildDir = {buildDirectory}/client, whatever the input layout held.
C11_Original ==
    (Applied /\ OnlyBaseFieldsOverridden /\ applied.error = NoError) =>
        /\ applied.value.serverBuildPath = DerivedServerPath(applied.value)
        /\ applied.value.clientBuildDir = DerivedClientDir(applied.value)

\* C11 amended: serverBuildPath is always recomputed from the returned
\* buildDirectory and serverBuildFile; clientBuildDir is recomputed when the
\* override sets buildDirectory (and no clientBuildDir), and is the input
\* layout's clientBuildDir when the override sets serverBuildFile only.
C11_RecomputesDerivedFields ==
    (Applied /\ Recomputes /\ applied.error = NoError) =>
        /\ applied.value.serverBuildPath = DerivedServerPath(applied.value)
        /\ Truthy(overrides.serverBuildFile) =>
              applied.value.serverBuildFile = overrides.serverBuildFile
        /\ (Truthy(overrides.buildDirectory) /\ overrides.clientBuildDir \in {Absent, Undefined}) =>
              /\ applied.value.buildDirectory = overrides.buildDirectory
              /\ applied.value.clientBuildDir = DerivedClientDir(applied.value)
        /\ (OnlyBaseFieldsOverridden /\ overrides.buildDirectory = Absent) =>
              /\ applied.value.buildDirectory = layout.buildDirectory
              /\ applied.value.clientBuildDir = layout.clientBuildDir

\* a legacy layout (flat server path, own assets directory) with only serverBuildFile overridden
C11_Witness ==
    /\ Applied /\ OnlyBaseFieldsOverridden
    /\ overrides.buildDirectory = Absent /\ overrides.serverBuildFile = S_main_js
    /\ layout.serverBuildPath = S_build \o S_slash \o S_index_js
    /\ layout.clientBuildDir = S_public_build
    /\ applied.error = NoError
    /\ applied.value.serverBuildPath = S_build \o S_slash \o S_server \o S_slash \o S_main_js
    /\ applied.value.clientBuildDir = S_public_build

\* the override supplies no build directory and no server build file (the code's test: neither is truthy)
NoBaseFieldOverridden == ~Truthy(overrides.buildDirectory) /\ ~Truthy(overrides.serverBuildFile)

\* C29: applyConfigOverrides returns its input layout unchanged whenever the
\* override sets neither buildDirectory nor serverBuildFile: an override that
\* supplies only clientBuildDir, serverBuildPath or appDirectory has no effect.
C29_OtherOverridesHaveNoEffect ==
    (Applied /\ NoBaseFieldOverridden) =>
        /\ applied.error = NoError
        /\ applied.value = layout

\* an override of clientBuildDir, serverBuildPath and appDirectory only, each
\* different from what the layout holds
C29_Witness ==
    /\ Applied
    /\ overrides.buildDirectory = Absent /\ overrides.serverBuildFile = Absent
    /\ overrides.clientBuildDir = S_public_build /\ layout.clientBuildDir # S_public_build
    /\ overrides.serverBuildPath = S_build \o S_slash \o S_index_js
    /\ layout.serverBuildPath # S_build \o S_slash \o S_index_js
    /\ overrides.appDirectory = S_src /\ layout.appDirectory # S_src
    /\ applied.value = layout

----------------------------------------------------------------------------
(* Config resolution: one call of resolveRemixConfig on a project          *)

S_pub == <<"p","u","b">>
S_traversal == <<".",".","/","x">>
S_spaced == <<"a"," ","b">>
S_absolute == <<"/","x">>
S_backslashed == <<"a","\\","b">>

\* what a vite.config.* file can be; tag is a one-character directory name
\* that tells the candidate files apart
ViteFileVariants(tag) ==
    {AbsentFile,
     [exists |-> TRUE, size |-> 0, literals |-> NoLiterals],
     ViteFile(Undefined),
     ViteFile(tag),
     [ViteFile(tag) EXCEPT !.size = MAX_CONFIG_FILE_SIZE + 1],
     ViteFile(S_traversal),
     [ViteFile(tag) EXCEPT !.literals["serverBuildFile"] = S_absolute],
     [exists |-> TRUE, size |-> MAX_CONFIG_FILE_SIZE,
      literals |-> [NoLiterals EXCEPT !["serverBuildFile"] = S_main_js, !["appDirectory"] = S_src,
                                      !["serverBuildPath"] = tag \o S_slash \o S_index_js]]}

\* what a remix.config.* file can be
LegacyFileVariants(tag) ==
    {AbsentFile,
     LegacyFile(Undefined, Undefined),
     LegacyFile(tag \o S_slash \o S_index_js, tag \o S_slash \o S_pub),
     LegacyFile(S_index_js, Undefined),
     LegacyFile(Undefined, tag \o S_slash \o S_pub),
     LegacyFile(S_traversal, Undefined),
     LegacyFile(tag \o S_slash \o S_index_js, S_backslashed),
     [exists |-> TRUE, size |-> 1,
      literals |-> [NoLiterals EXCEPT !["appDirectory"] = S_spaced, !["buildDirectory"] = tag]]}

\* every combination of the six candidate files
ResolveConfigFiles ==
    {[NoConfigFiles EXCEPT !["vite.config.ts"] = v1, !["vite.config.js"] = v2,
                           !["vite.config.mjs"] = v3, !["remix.config.ts"] = l1,
                           !["remix.config.js"] = l2, !["remix.config.mjs"] = l3] :
        v1 \in ViteFileVariants(<<"a">>), v2 \in ViteFileVariants(<<"b">>),
        v3 \in ViteFileVariants(<<"c">>), l1 \in LegacyFileVariants(<<"e">>),
        l2 \in LegacyFileVariants(<<"f">>), l3 \in LegacyFileVariants(<<"g">>)}

InitResolve ==
    /\ op = "none"
    /\ fs = EmptyFs
    /\ packageJson = NoPackageJson
    /\ configFiles \in ResolveConfigFiles
    /\ installed = NoInstalled
    /\ layout = DEFAULTS
    /\ overrides = NoOverrides
    /\ allowArg = NoAllowArg
    /\ firemixConfig = NoFiremixConfig
    /\ report = NewResult
    /\ applied = NoApplied
    /\ guard = NoGuard
    /\ parsed = NoParsed
    /\ gen = NoGen
    /\ writes = 0
    /\ toolRun = NoRun
    /\ cliArgs = NoCliArgs
    /\ plugin = NoPlugin
    /\ resolvedVersion = NoRemixVersion
    /\ bundle = NoBundle
    /\ runConfigResult = NoRunConfigResult
    /\ runConfigArg = NoRunConfig
    /\ nameChecks = NoNameChecks
    /\ nameArg = NoName
    /\ resolution = NoResolved

ResolveRemixConfig ==
    /\ op = "none"
    /\ resolution' = resolveRemixConfig(configFiles)
    /\ op' = "resolveRemixConfig"
    /\ UNCHANGED <<toolVars, resolvedVersion, validatorVars, bundle, fs, packageJson, configFiles, installed, layout, overrides, allowArg,
                   firemixConfig, report, applied, guard, parsed, gen>>

NextResolve == ResolveRemixConfig

SpecResolve == InitResolve /\ [][NextResolve]_vars

----------------------------------------------------------------------------
(* Claims about resolveRemixConfig (checked under SpecResolve)             *)

Resolved == op = "resolveRemixConfig"

\* the candidate files in probing order, and the keys each kind of file can supply
Candidates == <<"vite.config.ts", "vite.config.js", "vite.config.mjs",
                "remix.config.ts", "remix.config.js", "remix.config.mjs">>
ViteKeys == {"buildDirectory", "serverBuildFile", "appDirectory"}
LegacyKeys == {"serverBuildPath", "assetsBuildDirectory", "appDirectory"}
KeysFor(i) == IF i <= 3 THEN ViteKeys ELSE LegacyKeys

Readable(i) ==
    LET file == configFiles[Candidates[i]]
    IN  file.exists /\ file.size > 0 /\ file.size <= MAX_CONFIG_FILE_SIZE

\* candidate i is readable and its text holds at least one of its keys
Yields(i) == Readable(i) /\ \E k \in KeysFor(i) : configFiles[Candidates[i]].literals[k] # Undefined

\* the first candidate that yields a field; 0 when none does
FirstYielding ==
    IF \E i \in 1..Len(Candidates) : Yields(i)
    THEN CHOOSE i \in 1..Len(Candidates) : Yields(i) /\ \A j \in 1..(i - 1) : ~Yields(j)
    ELSE 0

\* the value the first yielding candidate supplies for key k
Supplied(k) ==
    IF FirstYielding = 0 \/ k \notin KeysFor(FirstYielding) THEN Undefined
    ELSE configFiles[Candidates[FirstYielding]].literals[k]

\* a path up to its last slash, and after it
ParentOf(path) ==
    IF LastIndexOf(path, "/") = 0 THEN S_dot ELSE SubSeq(path, 1, LastIndexOf(path, "/") - 1)
LastSegmentOf(path) == SubSeq(path, LastIndexOf(path, "/") + 1, Len(path))

\* C12: when the legacy config in use supplies a server path P (no build
\* directory or server file name is then extracted), the returned layout has
\* serverBuildPath = P verbatim, buildDirectory = the parent directory of P and
\* serverBuildFile = the last segment of P; in every other case
\* serverBuildPath = {buildDirectory}/server/{serverBuildFile}.
C12_LegacyServerPathVerbatim ==
    (Resolved /\ resolution.error = NoError) =>
        IF Supplied("serverBuildPath") # Undefined
        THEN /\ Supplied("buildDirectory") = Undefined /\ Supplied("serverBuildFile") = Undefined
             /\ resolution.value.serverBuildPath = Supplied("serverBuildPath")
             /\ resolution.value.buildDirectory = ParentOf(Supplied("serverBuildPath"))
             /\ resolution.value.serverBuildFile = LastSegmentOf(Supplied("serverBuildPath"))
        ELSE resolution.value.serverBuildPath = DerivedServerPath(resolution.value)

\* remix.config.js with serverBuildPath "f/index.js" behind a vite config nothing can be read from
C12_Witness ==
    /\ Resolved /\ resolution.error = NoError
    /\ configFiles["vite.config.ts"] = ViteFile(Undefined)
    /\ FirstYielding = 5
    /\ Supplied("serverBuildPath") = <<"f">> \o S_slash \o S_index_js
    /\ resolution.value.serverBuildPath = <<"f">> \o S_slash \o S_index_js
    /\ resolution.value.buildDirectory = <<"f">>
    /\ resolution.value.serverBuildFile = S_index_js

\* the layout that the fields of the first yielding candidate alone determine
SuppliedBuildDirectory ==
    IF Supplied("buildDirectory") # Undefined THEN Supplied("buildDirectory")
    ELSE IF Supplied("serverBuildPath") # Undefined THEN ParentOf(Supplied("serverBuildPath"))
    ELSE S_build
SuppliedServerBuildFile ==
    IF Supplied("serverBuildFile") # Undefined THEN Supplied("serverBuildFile")
    ELSE IF Supplied("serverBuildPath") # Undefined THEN LastSegmentOf(Supplied("serverBuildPath"))
    ELSE S_index_js
SuppliedLayout ==
    [buildDirectory |-> SuppliedBuildDirectory,
     serverBuildFile |-> SuppliedServerBuildFile,
     serverBuildPath |-> IF Supplied("serverBuildPath") # Undefined THEN Supplied("serverBuildPath")
                         ELSE SuppliedBuildDirectory \o S_slash \o S_server \o S_slash
                              \o SuppliedServerBuildFile,
     clientBuildDir |-> IF Supplied("assetsBuildDirectory") # Undefined
                        THEN Supplied("assetsBuildDirectory")
                        ELSE SuppliedBuildDirectory \o S_slash \o S_client,
     appDirectory |-> IF Supplied("appDirectory") # Undefined THEN Supplied("appDirectory") ELSE S_app]

\* C13: precedence by first match: every extracted field comes from one file,
\* the first candidate (vite.config.ts, .js, .mjs, remix.config.ts, .js, .mjs)
\* that yields a field; nothing is merged across files, and a remix.config.*
\* file is consulted only when no vite.config.* file yielded a field.
C13_FirstMatchOnly ==
    Resolved =>
        /\ resolution.from = (IF FirstYielding = 0 THEN "none" ELSE Candidates[FirstYielding])
        /\ resolution.error = NoError => resolution.value = SuppliedLayout
        /\ resolution.error # NoError =>
              /\ FirstYielding # 0
              /\ \E k \in KeysFor(FirstYielding) :
                    /\ Supplied(k) # Undefined
                    /\ sanitizeRelativePath(Supplied(k)) # NoError

\* vite.config.ts unreadable statically, vite.config.js, vite.config.mjs and
\* remix.config.ts all yield fields: the layout is that of vite.config.js
C13_Witness ==
    /\ Resolved /\ resolution.error = NoError
    /\ Readable(1) /\ ~Yields(1) /\ Yields(2) /\ Yields(3) /\ Yields(4)
    /\ Supplied("buildDirectory") = <<"b">>
    /\ configFiles["remix.config.ts"].literals["assetsBuildDirectory"] # Undefined
    /\ resolution.value.buildDirectory = <<"b">>
    /\ resolution.value.clientBuildDir = <<"b">> \o S_slash \o S_client

\* what the path/name validators accept: the whitelisted characters, no '..', not absolute
ValidPathLike(value) ==
    /\ Len(value) >= 1
    /\ \A i \in 1..Len(value) : value[i] \in AlnumChars \cup {".", "_", "/", "-"}
    /\ ~\E i \in 1..(Len(value) - 1) : value[i] = "." /\ value[i + 1] = "."
    /\ value[1] # "/"

InvalidSupplied == {k \in ConfigKeys : Supplied(k) # Undefined /\ ~ValidPathLike(Supplied(k))}

\* C14: when a path-like field extracted from the config file in use fails
\* validation, resolveRemixConfig fails with an error naming such a field and
\* returns no layout; the invalid value is never replaced by a default or dropped.
C14_InvalidFieldIsFatal ==
    (Resolved /\ InvalidSupplied # {}) =>
        /\ resolution.error # NoError
        /\ resolution.value = EmptyPartial
        /\ \E k \in InvalidSupplied :
              resolution.field = (IF k = "assetsBuildDirectory" THEN "clientBuildDir" ELSE k)

\* a vite config whose buildDirectory is "../x" is rejected although a valid legacy config exists
C14_Witness ==
    /\ Resolved
    /\ FirstYielding = 1
    /\ Supplied("buildDirectory") = S_traversal
    /\ Yields(5)
    /\ resolution.error = "Invalid: path traversal or absolute paths not allowed"
    /\ resolution.field = "buildDirectory"

----------------------------------------------------------------------------
(* Name and path validation: one call of each validator on one string      *)

MaxInputLen == 3   \* length of the enumerated input strings

InputChars == {".", "a", "/", " ", "\\", "@"}

\* a name of n characters that starts with '..'
LongName(n) == [i \in 1..n |-> IF i <= 2 THEN "." ELSE "a"]

NameInputs ==
    (StringsUpTo(InputChars, MaxInputLen) \ {<<>>})
    \cup {LongName(MAX_PACKAGE_NAME_LENGTH), LongName(MAX_PACKAGE_NAME_LENGTH + 1)}

InitValidate ==
    /\ op = "none"
    /\ fs = EmptyFs
    /\ packageJson = NoPackageJson
    /\ configFiles = NoConfigFiles
    /\ installed = NoInstalled
    /\ layout = DEFAULTS
    /\ overrides = NoOverrides
    /\ allowArg = NoAllowArg
    /\ firemixConfig = NoFiremixConfig
    /\ report = NewResult
    /\ applied = NoApplied
    /\ guard = NoGuard
    /\ parsed = NoParsed
    /\ gen = NoGen
    /\ writes = 0
    /\ toolRun = NoRun
    /\ cliArgs = NoCliArgs
    /\ plugin = NoPlugin
    /\ resolvedVersion = NoRemixVersion
    /\ bundle = NoBundle
    /\ resolution = NoResolved
    /\ nameArg \in NameInputs
    /\ nameChecks = NoNameChecks
    /\ runConfigArg = NoRunConfig
    /\ runConfigResult = NoRunConfigResult

ValidateName ==
    /\ op = "none"
    /\ nameChecks' = [directoryName |-> sanitizeDirectoryName(nameArg),
                      relativePath |-> sanitizeRelativePath(nameArg),
                      packageName |-> validatePackageName(nameArg)]
    /\ op' = "validateName"
    /\ UNCHANGED <<toolVars, resolvedVersion, bundle, fs, packageJson, configFiles, installed, layout, overrides, allowArg,
                   firemixConfig, report, applied, guard, parsed, gen, resolution,
                   nameArg, runConfigArg, runConfigResult>>

NextValidate == ValidateName

SpecValidate == InitValidate /\ [][NextValidate]_vars

----------------------------------------------------------------------------
(* Claims about the validators (checked under SpecValidate)                *)

NameValidated == op = "validateName"

HasDotDot(s) == \E i \in 1..(Len(s) - 1) : s[i] = "." /\ s[i + 1] = "."

TraversalErrors == {"Invalid: path traversal or absolute paths not allowed",
                    "Invalid package name (path traversal attempt)"}

\* C15: for every input that contains '..', the directory-name validator, the
\* relative-path validator and validatePackageName each fail, and each failure
\* is the path-traversal error, whatever other characters or length the input has.
C15_DotDotIsTraversal ==
    (NameValidated /\ HasDotDot(nameArg)) =>
        /\ nameChecks.directoryName \in TraversalErrors
        /\ nameChecks.relativePath \in TraversalErrors
        /\ nameChecks.packageName \in TraversalErrors

\* what does hold: every input that contains '..' is rejected by all three
\* validators; the error is the traversal error when the input is otherwise
\* within the character whitelist (directory name, relative path) or within
\* the length limit (package name)
DotDotAlwaysRejected ==
    (NameValidated /\ HasDotDot(nameArg)) =>
        /\ nameChecks.directoryName # NoError
        /\ nameChecks.relativePath # NoError
        /\ nameChecks.packageName # NoError
        /\ PathPattern(nameArg) =>
              /\ nameChecks.directoryName \in TraversalErrors
              /\ nameChecks.relativePath \in TraversalErrors
        /\ Len(nameArg) <= MAX_PACKAGE_NAME_LENGTH => nameChecks.packageName \in TraversalErrors

----------------------------------------------------------------------------
(* Run configuration: one call of validateRunConfig                        *)

\* a Partial<RunConfig> from, per field, nothing (<<>>) or one integer (<<n>>)
PartialRunConfig(min, max, conc, cpu, mem) ==
    LET given == [minInstances |-> min, maxInstances |-> max, concurrency |-> conc,
                  cpu |-> cpu, memoryMiB |-> mem]
    IN  [supplied |-> {f \in RunConfigFields : given[f] # <<>>},
         values |-> [f \in RunConfigFields |-> IF given[f] = <<>> THEN 0 ELSE given[f][1]]]

RunConfigInputs ==
    {PartialRunConfig(min, max, conc, cpu, mem) :
        min \in {<<>>, <<-1>>, <<0>>, <<11>>, <<100>>, <<101>>},
        max \in {<<>>, <<0>>, <<1>>, <<5>>, <<1000>>, <<1001>>},
        conc \in {<<>>, <<0>>, <<1>>, <<1000>>, <<1001>>},
        cpu \in {<<>>, <<0>>, <<1>>, <<8>>, <<9>>},
        mem \in {<<>>, <<127>>, <<128>>, <<32768>>, <<32769>>}}

InitRunConfig ==
    /\ op = "none"
    /\ fs = EmptyFs
    /\ packageJson = NoPackageJson
    /\ configFiles = NoConfigFiles
    /\ installed = NoInstalled
    /\ layout = DEFAULTS
    /\ overrides = NoOverrides
    /\ allowArg = NoAllowArg
    /\ firemixConfig = NoFiremixConfig
    /\ report = NewResult
    /\ applied = NoApplied
    /\ guard = NoGuard
    /\ parsed = NoParsed
    /\ gen = NoGen
    /\ writes = 0
    /\ toolRun = NoRun
    /\ cliArgs = NoCliArgs
    /\ plugin = NoPlugin
    /\ resolvedVersion = NoRemixVersion
    /\ bundle = NoBundle
    /\ resolution = NoResolved
    /\ nameArg = NoName
    /\ nameChecks = NoNameChecks
    /\ runConfigArg \in RunConfigInputs
    /\ runConfigResult = NoRunConfigResult

ValidateRunConfig ==
    /\ op = "none"
    /\ runConfigResult' = validateRunConfig(runConfigArg)
    /\ op' = "validateRunConfig"
    /\ UNCHANGED <<toolVars, resolvedVersion, bundle, fs, packageJson, configFiles, installed, layout, overrides, allowArg,
                   firemixConfig, report, applied, guard, parsed, gen, resolution,
                   nameArg, nameChecks, runConfigArg>>

NextRunConfig == ValidateRunConfig

SpecRunConfig == InitRunConfig /\ [][NextRunConfig]_vars

----------------------------------------------------------------------------
(* Claims about validateRunConfig (checked under SpecRunConfig)            *)

RunConfigValidated == op = "validateRunConfig"

\* the argument with its missing fields defaulted
Defaulted(f) ==
    IF f \in runConfigArg.supplied THEN runConfigArg.values[f]
    ELSE CASE f = "minInstances" -> 0
           [] f = "maxInstances" -> 10
           [] f = "concurrency" -> 80
           [] f = "cpu" -> 1
           [] OTHER -> 512

InBounds(min, max, conc, cpu, mem) ==
    /\ 0 <= min /\ min <= 100
    /\ 1 <= max /\ max <= 1000
    /\ min <= max
    /\ 1 <= conc /\ conc <= 1000
    /\ 1 <= cpu /\ cpu <= 8
    /\ 128 <= mem /\ mem <= 32768

\* the runConfig block the bundle assembly writes from the validated values
ManifestRunConfig ==
    MakeBundle(DEFAULTS, runConfigResult.value, Undefined, V_0_0_0, Undefined).runConfig

\* C16: validateRunConfig fails exactly when, after defaulting, one of the
\* bounds 0 <= minInstances <= 100, 1 <= maxInstances <= 1000, minInstances <=
\* maxInstances, 1 <= concurrency <= 1000, 1 <= cpu <= 8, 128 <= memoryMiB <=
\* 32768 is violated; what it returns is the defaulted configuration, within
\* the bounds, and the manifest's runConfig carries these values.
C16_RunConfigWithinBounds ==
    RunConfigValidated =>
        /\ runConfigResult.error = NoError <=>
              InBounds(Defaulted("minInstances"), Defaulted("maxInstances"),
                       Defaulted("concurrency"), Defaulted("cpu"), Defaulted("memoryMiB"))
        /\ runConfigResult.error = NoError =>
              /\ \A f \in RunConfigFields : runConfigResult.value[f] = Defaulted(f)
              /\ InBounds(runConfigResult.value.minInstances, runConfigResult.value.maxInstances,
                          runConfigResult.value.concurrency, runConfigResult.value.cpu,
                          runConfigResult.value.memoryMiB)
              /\ InBounds(ManifestRunConfig.minInstances, ManifestRunConfig.maxInstances,
                          ManifestRunConfig.concurrency, ManifestRunConfig.cpu,
                          ManifestRunConfig.memoryMiB)

\* minInstances 11 with maxInstances omitted fails against the default maximum of 10
C16_Witness ==
    /\ RunConfigValidated
    /\ runConfigArg.supplied = {"minInstances"}
    /\ runConfigArg.values.minInstances = 11
    /\ runConfigResult.error = "minInstances cannot exceed maxInstances"

----------------------------------------------------------------------------
(* Bundle assembly: step 7 of generateBundleWithMetadata on its own        *)

S_deno_run == <<"d","e","n","o"," ","r","u","n"," ","b">>

\* a ResolvedRemixConfig with a space in its paths: no resolver output, but a
\* value of the type generateRunCommand accepts
SpacedLayout ==
    [buildDirectory |-> <<"m","y"," ","d">>,
     serverBuildFile |-> S_index_js,
     serverBuildPath |-> <<"m","y"," ","d">> \o S_slash \o S_server \o S_slash \o S_index_js,
     clientBuildDir |-> <<"m","y"," ","d">> \o S_slash \o S_client,
     appDirectory |-> S_app]

\* layouts as resolveRemixConfig returns them, and as applyConfigOverrides
\* returns them for a build directory and / or a server file override
AssembleLayouts ==
    ResolvedLayouts
    \cup {applyConfigOverrides(l, ov).value :
            l \in ResolvedLayouts,
            ov \in {[NoOverrides EXCEPT !.buildDirectory = S_d],
                    [NoOverrides EXCEPT !.serverBuildFile = S_main_js],
                    [NoOverrides EXCEPT !.buildDirectory = S_build, !.serverBuildFile = Undefined]}}
    \cup {SpacedLayout}

RunCommands == {Undefined, <<>>, <<"x">>, S_deno_run, S_remix_serve}

InitAssemble ==
    /\ op = "none"
    /\ fs = EmptyFs
    /\ packageJson = NoPackageJson
    /\ configFiles = NoConfigFiles
    /\ installed \in GenInstalled("dir") \cup GenInstalled("absent")
    /\ layout \in AssembleLayouts
    /\ overrides = NoOverrides
    /\ allowArg = NoAllowArg
    /\ firemixConfig \in {[NoFiremixConfig EXCEPT !.runCommand = rc] : rc \in RunCommands}
    /\ report = NewResult
    /\ applied = NoApplied
    /\ guard = NoGuard
    /\ parsed = NoParsed
    /\ gen = NoGen
    /\ writes = 0
    /\ toolRun = NoRun
    /\ cliArgs = NoCliArgs
    /\ plugin = NoPlugin
    /\ resolvedVersion = NoRemixVersion
    /\ resolution = NoResolved
    /\ nameArg = NoName
    /\ nameChecks = NoNameChecks
    /\ runConfigArg = NoRunConfig
    /\ runConfigResult = validateRunConfig(NoRunConfig)
    /\ bundle = NoBundle

AssembleBundle ==
    /\ op = "none"
    /\ bundle' = MakeBundle(layout, runConfigResult.value, firemixConfig.runCommand,
                            getAdapterVersion(installed), getResolvedRemixVersion(installed))
    /\ op' = "assembleBundle"
    /\ UNCHANGED <<toolVars, resolvedVersion, fs, packageJson, configFiles, installed, layout, overrides, allowArg,
                   firemixConfig, report, applied, guard, parsed, gen, resolution, validatorVars>>

NextAssemble == AssembleBundle

SpecAssemble == InitAssemble /\ [][NextAssemble]_vars

----------------------------------------------------------------------------
(* Claims about the assembled bundle (checked under SpecAssemble)          *)

Assembled == op = "assembleBundle"

HasSpace(s) == \E i \in 1..Len(s) : s[i] = " "
InDoubleQuotes(s) == <<"\"">> \o s \o <<"\"">>

RunCommandSupplied ==
    firemixConfig.runCommand # Undefined /\ Len(firemixConfig.runCommand) > 0

HoldsFile(dir, path) ==
    IF \A i \in 1..Len(path) : path[i] # "/"
    THEN dir = S_dot
    ELSE \E name \in {SubSeq(path, k, Len(path)) : k \in 1..(Len(path) + 1)} :
            /\ \A i \in 1..Len(name) : name[i] # "/"
            /\ path = dir \o S_slash \o name

InStaticAssets(dir) ==
    /\ bundle.outputFiles.staticAssets.present
    /\ \E i \in 1..Len(bundle.outputFiles.staticAssets.include) :
            bundle.outputFiles.staticAssets.include[i] = dir

\* C19: the assembled manifest lists the layout's client assets directory in
\* outputFiles.staticAssets.include, for default, configured, overridden and
\* legacy layouts alike.
C19_ClientDirInStaticAssets ==
    Assembled => InStaticAssets(layout.clientBuildDir)

\* what the assembly does instead: outputFiles has the serverApp list only
StaticAssetsNeverPresent ==
    Assembled => ~bundle.outputFiles.staticAssets.present

----------------------------------------------------------------------------
(* Server tree and client tree (checked under SpecConfig)                  *)

Disjoint(l) == dirname(l.serverBuildPath) # l.clientBuildDir

\* C20: in every layout resolveRemixConfig returns, and in every layout
\* applyConfigOverrides returns for it, the directory holding serverBuildPath
\* differs from clientBuildDir.
C20_ServerAndClientTreesDiffer ==
    /\ Disjoint(layout)
    /\ (Applied /\ applied.error = NoError) => Disjoint(applied.value)

----------------------------------------------------------------------------
(* Path fields of a layout (checked under SpecConfig)                      *)

PathFieldSafe(p) ==
    /\ ~StartsWith(p, S_slash)
    /\ ~Includes(p, <<".", ".">>)
    /\ ~Includes(p, <<"\\">>)
    \* joined to the project root, no segment climbs out of it
    /\ \A i \in 1..Len(Split(p)) : Split(p)[i] # <<".", ".">>

PathsSafe(l) == \A f \in ConfigFields : l[f] # Undefined /\ PathFieldSafe(l[f])

\* C21: in every layout resolveRemixConfig returns, and in every layout
\* applyConfigOverrides returns for it, each of the five path fields is
\* relative, has no '..' and no backslash, and so stays inside the project root.
C21_PathFieldsStayInProject ==
    /\ PathsSafe(layout)
    /\ (Applied /\ applied.error = NoError) => PathsSafe(applied.value)

\* a legacy layout whose build directory is then overridden
C21_Witness ==
    /\ Applied
    /\ layout.serverBuildPath = S_d \o S_slash \o S_index_js
    /\ overrides.buildDirectory = <<"d", "/">>
    /\ applied.error = NoError
    /\ applied.value.serverBuildPath # layout.serverBuildPath
    /\ PathsSafe(applied.value)

----------------------------------------------------------------------------
(* Version resolution: one call of getResolvedRemixVersion                 *)

\* the version the i-th package carries when it has one
PackageVersions == << <<"2",".","1">>, <<"2",".","2">>, <<"2",".","3">>, <<"2",".","4">>, <<"2",".","5">> >>

\* what node_modules/<package>/package.json can be
ManifestVariants(version) ==
    {NoManifest,
     [kind |-> "link", size |-> 1, type |-> "object", version |-> version],
     [kind |-> "file", size |-> VERSION_MAX_PACKAGE_JSON_SIZE + 1, type |-> "object", version |-> version],
     [kind |-> "file", size |-> 1, type |-> "array", version |-> Undefined],
     [kind |-> "file", size |-> 1, type |-> "object", version |-> Undefined],
     [kind |-> "file", size |-> 1, type |-> "object", version |-> <<>>],
     [kind |-> "file", size |-> 1, type |-> "object", version |-> version]}

VersionInstalls ==
    {[packages |-> <<p1, p2, p3, p4, p5>>, adapter |-> NoManifest] :
        p1 \in ManifestVariants(PackageVersions[1]), p2 \in ManifestVariants(PackageVersions[2]),
        p3 \in ManifestVariants(PackageVersions[3]), p4 \in ManifestVariants(PackageVersions[4]),
        p5 \in ManifestVariants(PackageVersions[5])}

InitVersion ==
    /\ op = "none"
    /\ fs = EmptyFs
    /\ packageJson = NoPackageJson
    /\ configFiles = NoConfigFiles
    /\ installed \in VersionInstalls
    /\ layout = DEFAULTS
    /\ overrides = NoOverrides
    /\ allowArg = NoAllowArg
    /\ firemixConfig = NoFiremixConfig
    /\ report = NewResult
    /\ applied = NoApplied
    /\ guard = NoGuard
    /\ parsed = NoParsed
    /\ gen = NoGen
    /\ writes = 0
    /\ toolRun = NoRun
    /\ cliArgs = NoCliArgs
    /\ plugin = NoPlugin
    /\ resolution = NoResolved
    /\ nameArg = NoName
    /\ nameChecks = NoNameChecks
    /\ runConfigArg = NoRunConfig
    /\ runConfigResult = NoRunConfigResult
    /\ bundle = NoBundle
    /\ resolvedVersion = NoRemixVersion

GetResolvedRemixVersion ==
    /\ op = "none"
    /\ resolvedVersion' = getResolvedRemixVersion(installed)
    /\ op' = "getResolvedRemixVersion"
    /\ UNCHANGED <<toolVars, fs, packageJson, configFiles, installed, layout, overrides, allowArg,
                   firemixConfig, report, applied, guard, parsed, gen, resolution, validatorVars,
                   bundle>>

NextVersion == GetResolvedRemixVersion

SpecVersion == InitVersion /\ [][NextVersion]_vars

----------------------------------------------------------------------------
(* Claims about version resolution (checked under SpecVersion)             *)

VersionResolved == op = "getResolvedRemixVersion"

\* the installed manifest of the i-th package gives a version: a regular file
\* within the size limit holding an object with a non-empty string "version"
YieldsVersion(i) ==
    LET m == installed.packages[i]
    IN  /\ m.kind = "file"
        /\ m.size <= 50 * 1024
        /\ m.type = "object"
        /\ m.version # Undefined
        /\ Len(m.version) > 0

\* C22: getResolvedRemixVersion returns the version of the first package, in
\* the order node, react, dev, serve, express, whose manifest yields one, and
\* undefined exactly when no manifest yields one.
C22_FirstResolvableWins ==
    VersionResolved =>
        /\ \A i \in 1..5 :
              (YieldsVersion(i) /\ \A j \in 1..(i - 1) : ~YieldsVersion(j))
                  => resolvedVersion = installed.packages[i].version
        /\ (resolvedVersion = Undefined) <=> (\A i \in 1..5 : ~YieldsVersion(i))

\* node is installed behind a symbolic link, react and dev both give a version
C22_Witness ==
    /\ VersionResolved
    /\ installed.packages[1].kind = "link"
    /\ YieldsVersion(2)
    /\ YieldsVersion(3)
    /\ resolvedVersion = PackageVersions[2]

----------------------------------------------------------------------------
(* Claims about the warnings of generation (checked under SpecGen)         *)

VersionResolvable == \E i \in 1..Len(remixPackages) : Truthy(getResolvedPackageVersion(installed, i))

HasWarning(msg) == \E i \in 1..Len(gen.warnings) : gen.warnings[i].msg = msg

\* every step before the version lookup lets the call through
NothingElseFails ==
    /\ OtherwiseAcceptable
    /\ VerifyDisabled \/ BuildOutputValid

\* C23: an unresolvable framework version does not fail generation: the
\* manifest is returned with metadata.frameworkVersion undefined and the
\* warnings hold the unresolved-version warning; a resolvable version is the
\* frameworkVersion and there is no such warning.
C23_UnresolvedVersionIsWarning ==
    (Generated /\ NothingElseFails) =>
        /\ gen.error = NoError
        /\ IF VersionResolvable
           THEN /\ gen.bundle.metadata.frameworkVersion = getResolvedRemixVersion(installed)
                /\ ~HasWarning(S_cannot_resolve)
           ELSE /\ gen.bundle.metadata.frameworkVersion = Undefined
                /\ HasWarning(S_cannot_resolve)

S_could_not_read == "Firemix could not statically read Remix options from vite.config.*"

\* a vite.config.* file was read and none of its three fields could be extracted
ExtractionFailed == resolveRemixConfig(configFiles).warned

\* C24: the advisory conditions of one generation are all in the returned
\* warnings list: when a vite.config.* file is found and nothing can be
\* extracted from it, the call returns and its warnings hold the
\* config-extraction warning.
C24_ExtractionWarningReturned ==
    (Generated /\ ExtractionFailed /\ NothingElseFails) =>
        /\ gen.error = NoError
        /\ HasWarning(S_could_not_read)

\* what the code does instead: the extraction warning goes to the console
\* only, and no warnings list ever holds it
ExtractionWarningNeverReturned ==
    Generated => ~HasWarning(S_could_not_read)

----------------------------------------------------------------------------
(* Order of the errors of a verification report (checked under SpecVerify) *)

\* the place of an error in the documented check order
DocumentedRank(msg) ==
    IF msg \in EntryMsgs THEN 1
    ELSE IF msg \in EntryDirMsgs THEN 2
    ELSE IF msg \in ClientMsgs THEN 3
    ELSE 4

\* the place of an error in the order the checks are coded in
CodedRank(msg) ==
    IF msg \in EntryMsgs THEN 1
    ELSE IF msg \in ClientMsgs THEN 2
    ELSE IF msg \in EntryDirMsgs THEN 3
    ELSE 4

\* C25: the errors of a report are in the documented check order: server
\* entry file, then the entry's directory, then the client assets directory,
\* then package.json.
C25_ErrorsInDocumentedOrder ==
    Verified =>
        \A i, j \in 1..Len(report.errors) :
            i < j => DocumentedRank(report.errors[i].msg) < DocumentedRank(report.errors[j].msg)

\* what the code does instead: entry, client assets directory, entry's
\* directory, package.json
ErrorsInCodedOrder ==
    Verified =>
        \A i, j \in 1..Len(report.errors) :
            i < j => CodedRank(report.errors[i].msg) < CodedRank(report.errors[j].msg)

----------------------------------------------------------------------------
(* Malformed devDependencies (checked under SpecGuard)                     *)

\* package.json is read and accepted as far as its top level goes
ManifestAccepted ==
    /\ ManifestIsObject
    /\ packageJson.size <= MAX_PACKAGE_JSON_SIZE
    /\ ~HasDangerousKey

\* devDependencies is there and is no flat string-to-string mapping
DevDependenciesMalformed ==
    LET dd == packageJson.json.devDependencies
    IN  \/ dd.type = "array"
        \/ dd.type = "object" /\ \E i \in 1..Len(dd.entries) : dd.entries[i].value # "string"

InstallLocations == {p \in DOMAIN fs : StartsWith(p, S_node_modules)}

\* C26: a devDependencies value that is no flat string-to-string mapping is
\* discarded whole by safeParsePackageJson, and the guard without override then
\* returns normally and probes no install location, whatever is installed.
C26_MalformedDevDependenciesDiscarded ==
    (ManifestAccepted /\ DevDependenciesMalformed) =>
        /\ Parsed => (parsed.error = NoError /\ parsed.value.devDependencies = JsonUndefined)
        /\ (Guarded /\ OverrideNotEnabled) =>
              (guard.error = NoError /\ guard.reads \cap InstallLocations = {})

\* devDependencies names vitest with a number for its version, vitest is installed
C26_Witness ==
    /\ Guarded
    /\ OverrideNotEnabled
    /\ ManifestAccepted
    /\ packageJson.json.devDependencies.type = "object"
    /\ DevDependenciesMalformed
    /\ KindOf(fs, getNodeModulesPath(N_vitest)) = "dir"
    /\ guard.error = NoError

----------------------------------------------------------------------------
(* validation.ts: project, output path and output directory                *)

\* validateRemixProject: the error it throws, NoError when it returns
validateRemixProject(f, pj) ==
    LET packageJsonPath == ProjectPath(S_package_json)
    IN  IF ~existsSync(f, packageJsonPath) THEN "No package.json found. Is this a Remix project?"
        ELSE IF isSymlink(f, packageJsonPath) THEN "Security: package.json must not be a symlink"
        ELSE IF KindOf(f, packageJsonPath) \notin {"file", "empty"} THEN "Security: package.json is not a file"
        ELSE checkFileSize(f, packageJsonPath, pj.size, MAX_PACKAGE_JSON_SIZE)

\* path.normalize of a relative path (a trailing "/" is not kept)
normalize(p) == IF ProjectPath(p) = <<>> THEN S_dot ELSE ProjectPath(p)

\* sanitizePath(userInput, projectRoot): [error, value]
sanitizePath(userInput) ==
    LET normalized == normalize(userInput)
        fail(e) == [error |-> e, value |-> Undefined]
    IN  IF ~Truthy(userInput) THEN fail("Path must be a non-empty string")
        ELSE IF StartsWith(userInput, S_slash) THEN fail("Absolute paths are not allowed")
        ELSE IF StartsWith(normalized, <<".", ".">>) \/ Includes(normalized, <<"/", ".", ".">>)
                \/ Includes(normalized, <<"\\", ".", ".">>)
        THEN fail("Path traversal detected")
        \* relative(baseDir, join(baseDir, normalized)) is normalized again
        ELSE IF StartsWith(ProjectPath(normalized), <<".", ".">>) THEN fail("Path escapes project boundary")
        ELSE [error |-> NoError, value |-> normalized]

\* createSecureDirectory(dirPath): [error, fs, created]; fs is the filesystem it leaves
createSecureDirectory(f, dirPath) ==
    IF existsSync(f, dirPath)
    THEN IF isSymlink(f, dirPath)
         THEN [error |-> "Security: output directory is a symbolic link", fs |-> f, created |-> FALSE]
         ELSE IF KindOf(f, dirPath) # "dir"
         THEN [error |-> "output path exists but is not a directory", fs |-> f, created |-> FALSE]
         ELSE [error |-> NoError, fs |-> f, created |-> FALSE]
    ELSE IF KindOf(f, dirPath) = "dangling"
    THEN [error |-> "EEXIST", fs |-> f, created |-> FALSE]
    ELSE [error |-> NoError, fs |-> (dirPath :> "dir") @@ f, created |-> TRUE]

S_apphosting == <<".","a","p","p","h","o","s","t","i","n","g">>
S_bundle_yaml == <<"b","u","n","d","l","e",".","y","a","m","l">>

\* writeFileSync(join(outputPath, "bundle.yaml"), yaml): [error, fs]
writeBundle(f, outputPath) ==
    LET bundlePath == outputPath \o S_slash \o S_bundle_yaml
    IN  IF KindOf(f, bundlePath) = "dir" THEN [error |-> "EISDIR", fs |-> f]
        ELSE [error |-> NoError, fs |-> (bundlePath :> "file") @@ f]

----------------------------------------------------------------------------
(* cli.ts and vite.ts                                                      *)

\* what a run leaves behind: [tool, outcome, error, stage, generated,
\* verifierRan, verified, createdDir, wrote] and the filesystem
Outcome(tool, outcome, error, stage, generated, verifierRan, verified, createdDir, wrote, f) ==
    [run |-> [tool |-> tool, outcome |-> outcome, error |-> error, stage |-> stage,
              generated |-> generated, verifierRan |-> verifierRan, verified |-> verified,
              createdDir |-> createdDir, wrote |-> wrote],
     fs |-> f]

\* the output directory made ready before the result of generation is looked at
writeGenerated_CreatesDirectoryFirst(tool, failed, done, f, outputDir, dryRun, generated) ==
    LET layoutVerified == IF generated.verifierRan THEN generated.remixConfig ELSE EmptyPartial
        outputPath == ProjectPath(outputDir)
        dir == createSecureDirectory(f, outputPath)
        written == writeBundle(dir.fs, outputPath)
    IN  IF dir.error # NoError
        THEN Outcome(tool, failed, dir.error, "createSecureDirectory", FALSE, generated.verifierRan,
                     layoutVerified, FALSE, FALSE, f)
        ELSE IF generated.error # NoError
        THEN Outcome(tool, failed, generated.error, generated.stage, FALSE, generated.verifierRan,
                     layoutVerified, dir.created, FALSE, dir.fs)
        ELSE IF dryRun
        THEN Outcome(tool, done, NoError, "dryRun", TRUE, generated.verifierRan, layoutVerified,
                     dir.created, FALSE, dir.fs)
        ELSE IF written.error # NoError
        THEN Outcome(tool, failed, written.error, "writeFileSync", TRUE, generated.verifierRan,
                     layoutVerified, dir.created, FALSE, dir.fs)
        ELSE Outcome(tool, done, NoError, "none", TRUE, generated.verifierRan, layoutVerified,
                     dir.created, TRUE, written.fs)

\* what both tools do with the result of generateBundleWithMetadata: fail,
\* print (dry run), or createSecureDirectory and writeFileSync
writeGenerated(tool, failed, done, f, outputDir, dryRun, generated) ==
    LET layoutVerified == IF generated.verifierRan THEN generated.remixConfig ELSE EmptyPartial
        outputPath == ProjectPath(outputDir)
        dir == createSecureDirectory(f, outputPath)
        written == writeBundle(dir.fs, outputPath)
    IN  IF generated.error # NoError
        THEN Outcome(tool, failed, generated.error, generated.stage, FALSE, generated.verifierRan,
                     layoutVerified, FALSE, FALSE, f)
        ELSE IF dryRun
        THEN Outcome(tool, done, NoError, "dryRun", TRUE, generated.verifierRan, layoutVerified,
                     FALSE, FALSE, f)
        ELSE IF dir.error # NoError
        THEN Outcome(tool, failed, dir.error, "createSecureDirectory", TRUE, generated.verifierRan,
                     layoutVerified, FALSE, FALSE, f)
        ELSE IF written.error # NoError
        THEN Outcome(tool, failed, written.error, "writeFileSync", TRUE, generated.verifierRan,
                     layoutVerified, dir.created, FALSE, dir.fs)
        ELSE Outcome(tool, done, NoError, "none", TRUE, generated.verifierRan, layoutVerified,
                     dir.created, TRUE, written.fs)

\* the part of both tools from generateBundleWithMetadata to writeFileSync
generateAndWrite(tool, failed, done, f, pj, files, inst, config, outputDir, dryRun) ==
    writeGenerated(tool, failed, done, f, outputDir, dryRun,
                   generateBundleWithMetadata(f, pj, files, inst, config))

\* main of cli.ts on the parsed arguments: exit code and effects
main(f, pj, files, inst, args) ==
    LET exit(code, e, stage) == Outcome("cli", code, e, stage, FALSE, FALSE, EmptyPartial, FALSE, FALSE, f)
        output == IF args.outputDir = Undefined THEN [error |-> NoError, value |-> Undefined]
                  ELSE IF ~Truthy(args.outputDir) \/ StartsWith(args.outputDir, <<"-">>)
                  THEN [error |-> "--output requires a directory name", value |-> Undefined]
                  ELSE sanitizePath(args.outputDir)
        project == validateRemixProject(f, pj)
        resolved == resolveRemixConfig(files)
        verification == verifyBuildOutput(f, resolved.value)
        outputDir == IF Truthy(output.value) THEN output.value ELSE S_apphosting
    IN  IF output.error # NoError THEN exit("exit 1", output.error, "parseArgs")
        ELSE IF args.help THEN exit("exit 0", NoError, "help")
        ELSE IF args.version THEN exit("exit 0", NoError, "version")
        ELSE IF project # NoError THEN exit("exit 1", project, "validateRemixProject")
        ELSE IF args.verifyOnly
        THEN IF resolved.error # NoError THEN exit("exit 1", resolved.error, "resolveRemixConfig")
             ELSE Outcome("cli", IF verification.valid THEN "exit 0" ELSE "exit 1", NoError,
                          "verifyOnly", FALSE, TRUE, resolved.value, FALSE, FALSE, f)
        ELSE generateAndWrite("cli", "exit 1", "exit 0", f, pj, files, inst, args.config,
                              outputDir, args.dryRun)

\* configResolved of the plugin: the plugin state it leaves
configResolved(p, command, ssr) ==
    [p EXCEPT !.isBuildMode = (command = "build"), !.isSsrBuild = ssr]

\* closeBundle of the plugin: outcome and effects
closeBundle(p, options, f, pj, files, inst) ==
    LET enabled == IF p.enabled = "unset" THEN p.isBuildMode ELSE p.enabled = "true"
        skip(stage) == Outcome("plugin", "returned", NoError, stage, FALSE, FALSE, EmptyPartial, FALSE, FALSE, f)
        throw(e, stage) == Outcome("plugin", "threw", e, stage, FALSE, FALSE, EmptyPartial, FALSE, FALSE, f)
        project == validateRemixProject(f, pj)
        output == IF Truthy(p.outputDir) THEN sanitizePath(p.outputDir)
                  ELSE [error |-> NoError, value |-> S_apphosting]
    IN  IF ~enabled THEN skip("disabled")
        ELSE IF ~p.isSsrBuild THEN skip("clientBuild")
        ELSE IF project # NoError THEN throw(project, "validateRemixProject")
        ELSE IF output.error # NoError THEN throw(output.error, "sanitizePath")
        ELSE generateAndWrite("plugin", "threw", "returned", f, pj, files, inst, options,
                              output.value, FALSE)

----------------------------------------------------------------------------
(* The tools on one project: CLI runs and the events of one plugin instance *)

MaxWrites == 2   \* bundle.yaml is written at most this many times in one behaviour

S_out == <<"o","u","t">>

\* a project built for a layout: the build directories are there, the server
\* entry and package.json may or may not be, the output directory is not yet
\* (the projects here are built for the default layout)
ToolItems(lay) ==
    LET clientDir == ProjectPath(lay.clientBuildDir)
    IN  << [path |-> ProjectPath(ServerDirRelative(lay.serverBuildPath)), kinds |-> {"dir"}],
           [path |-> ProjectPath(lay.serverBuildPath), kinds |-> {"absent", "file"}],
           [path |-> clientDir, kinds |-> {"dir"}],
           [path |-> clientDir \o S_slash \o S_assets, kinds |-> {"dir"}],
           [path |-> S_package_json, kinds |-> {"absent", "file"}],
           [path |-> S_apphosting, kinds |-> {"absent"}] >>

\* no config file, or a vite config whose build directory leaves the project
ToolConfigFiles ==
    {NoConfigFiles, [NoConfigFiles EXCEPT !["vite.config.ts"] = ViteFile(<<".", ".", "/", "x">>)]}

\* parsed command lines
CliArgs ==
    {[NoCliArgs EXCEPT !.dryRun = dry, !.verifyOnly = only,
                       !.config = [NoFiremixConfig EXCEPT !.buildDirectory = b]] :
        dry \in BOOLEAN, only \in BOOLEAN, b \in {Undefined, S_d, <<".", ".">>}}
    \cup {[NoCliArgs EXCEPT !.help = TRUE], [NoCliArgs EXCEPT !.version = TRUE],
          [NoCliArgs EXCEPT !.outputDir = S_out],
          [NoCliArgs EXCEPT !.outputDir = <<".", ".", "/">> \o S_out],
          [NoCliArgs EXCEPT !.config = [NoFiremixConfig EXCEPT
                !.runConfig = [NoRunConfig EXCEPT !.supplied = {"minInstances"},
                                                  !.values.minInstances = 20]]]}

InitTools ==
    /\ op = "none"
    /\ fs \in FsExtend({EmptyFs}, ToolItems(DEFAULTS), {})
    /\ packageJson \in GenPackageJsons(KindOf(fs, S_package_json))
    /\ configFiles \in ToolConfigFiles
    /\ installed \in GenInstalled("absent")
    /\ layout = DEFAULTS
    /\ overrides = NoOverrides
    /\ allowArg = NoAllowArg
    /\ firemixConfig = NoFiremixConfig
    /\ report = NewResult
    /\ applied = NoApplied
    /\ guard = NoGuard
    /\ parsed = NoParsed
    /\ gen = NoGen
    /\ resolution = NoResolved
    /\ nameArg = NoName
    /\ nameChecks = NoNameChecks
    /\ runConfigArg = NoRunConfig
    /\ runConfigResult = NoRunConfigResult
    /\ bundle = NoBundle
    /\ resolvedVersion = NoRemixVersion
    /\ plugin \in {[NoPlugin EXCEPT !.enabled = e] : e \in {"unset", "true", "false"}}
    /\ cliArgs = NoCliArgs
    /\ toolRun = NoRun
    /\ writes = 0

\* one run of the CLI
Main ==
    /\ writes < MaxWrites
    /\ \E args \in CliArgs :
          \E r \in {main(fs, packageJson, configFiles, installed, args)} :
              /\ cliArgs' = args
              /\ toolRun' = r.run
              /\ fs' = r.fs
              /\ writes' = IF r.run.wrote THEN writes + 1 ELSE writes
    /\ op' = "main"
    /\ UNCHANGED <<packageJson, configFiles, installed, layout, overrides, allowArg, firemixConfig,
                   report, applied, guard, parsed, gen, resolution, validatorVars, bundle,
                   resolvedVersion, plugin>>

\* Vite hands the resolved config of one build or dev-server run to the plugin
ConfigResolved ==
    /\ \E command \in {"build", "serve"}, ssr \in BOOLEAN :
          plugin' = configResolved(plugin, command, ssr)
    /\ op' = "configResolved"
    /\ UNCHANGED <<fs, packageJson, configFiles, installed, layout, overrides, allowArg, firemixConfig,
                   report, applied, guard, parsed, gen, resolution, validatorVars, bundle,
                   resolvedVersion, cliArgs, toolRun, writes>>

\* Vite closes the bundle of the run last configured
CloseBundle ==
    /\ writes < MaxWrites
    /\ \E r \in {closeBundle(plugin, firemixConfig, fs, packageJson, configFiles, installed)} :
           /\ toolRun' = r.run
           /\ fs' = r.fs
           /\ writes' = IF r.run.wrote THEN writes + 1 ELSE writes
    /\ op' = "closeBundle"
    /\ UNCHANGED <<packageJson, configFiles, installed, layout, overrides, allowArg, firemixConfig,
                   report, applied, guard, parsed, gen, resolution, validatorVars, bundle,
                   resolvedVersion, plugin, cliArgs>>

NextTools == Main \/ ConfigResolved \/ CloseBundle

SpecTools == InitTools /\ [][NextTools]_vars

----------------------------------------------------------------------------
(* Claims about the plugin and the CLI (checked under SpecTools)           *)

\* the plugin is enabled: options.enabled ?? isBuildMode
PluginEnabled == IF plugin.enabled = "unset" THEN plugin.isBuildMode ELSE plugin.enabled = "true"

\* closeBundle went past its two early returns
BundleAttempted == toolRun.stage \notin {"disabled", "clientBuild"}

\* a project nothing is wrong with: package.json is a plain manifest, the
\* default build output is complete, the config resolves
HealthyProject ==
    /\ validateRemixProject(fs, packageJson) = NoError
    /\ packageJson.json.keys = {"name"}
    /\ resolveRemixConfig(configFiles).error = NoError
    /\ verifyBuildOutput(fs, resolveRemixConfig(configFiles).value).valid

\* C27: closeBundle generates and writes bundle.yaml only when the last
\* configResolved reported an SSR build and the plugin is enabled (enabled
\* true, or unset with the command "build"); the closeBundle of a client build
\* or of a dev-server run never writes, and the closeBundle of an enabled
\* server build of a sound project does: that is where the bundle is produced.
C27_BundleAtEnabledServerBuildOnly ==
    op = "closeBundle" =>
        /\ (BundleAttempted \/ toolRun.wrote) => (PluginEnabled /\ plugin.isSsrBuild)
        /\ (PluginEnabled /\ plugin.isSsrBuild /\ HealthyProject) => toolRun.wrote

\* what the code does keep of C27: closeBundle goes past its early returns
\* exactly at an enabled SSR build, and writes at no other
PluginGatesGeneration ==
    op = "closeBundle" =>
        /\ BundleAttempted <=> (PluginEnabled /\ plugin.isSsrBuild)
        /\ toolRun.wrote => (PluginEnabled /\ plugin.isSsrBuild)

\* the closeBundle of an enabled server build of a sound project
EnabledServerBuildClosed ==
    op = "closeBundle" /\ PluginEnabled /\ plugin.isSsrBuild /\ HealthyProject

\* the run the CLI makes of the same project with the same arguments less --verify-only
WithoutVerifyOnly ==
    main(fs, packageJson, configFiles, installed, [cliArgs EXCEPT !.verifyOnly = FALSE]).run

\* a --verify-only run that got as far as verifying the build output
VerifyOnlyVerified == op = "main" /\ cliArgs.verifyOnly /\ toolRun.stage = "verifyOnly"

\* C28: for the same project and arguments, --verify-only verifies the
\* layout that bundle generation verifies without --verify-only (the resolved
\* layout with the --build and --server-file overrides applied).
C28_VerifyOnlyVerifiesSameLayout ==
    (VerifyOnlyVerified /\ WithoutVerifyOnly.verifierRan) =>
        toolRun.verified = WithoutVerifyOnly.verified

\* what the code does instead: --verify-only verifies the resolved layout, overrides not applied
VerifyOnlyVerifiesResolvedLayout ==
    VerifyOnlyVerified => toolRun.verified = resolveRemixConfig(configFiles).value

\* the arguments or options the run just made was given
RunDryRun == toolRun'.tool = "cli" /\ cliArgs'.dryRun
RunVerifyOnly == toolRun'.tool = "cli" /\ cliArgs'.verifyOnly
RunConfigGiven == IF toolRun'.tool = "cli" THEN cliArgs'.config ELSE firemixConfig

\* the run just made changed the project: made the output directory or wrote bundle.yaml
RunTouchedProject == toolRun'.wrote \/ toolRun'.createdDir \/ fs' # fs

\* C30: the CLI and the plugin write bundle.yaml only as the last step of a
\* run in which config resolution, override validation, build verification
\* (when enabled), run-config validation and the dependency guard all
\* succeeded; a run that fails, a --dry-run and a --verify-only run write
\* nothing and create no output directory.
C30_WritesOnlyAsLastStep ==
    [][(op' \in {"main", "closeBundle"}) =>
          /\ RunTouchedProject =>
                /\ toolRun'.wrote /\ toolRun'.generated /\ toolRun'.error = NoError
                /\ resolveRemixConfig(configFiles).error = NoError
                /\ validateRunConfig(RunConfigGiven.runConfig).error = NoError
                /\ (RunConfigGiven.verify # JsBoolean(FALSE)) => toolRun'.verifierRan
                /\ ~RunDryRun /\ ~RunVerifyOnly
          /\ (toolRun'.error # NoError \/ toolRun'.outcome \in {"exit 1", "threw"}
                \/ RunDryRun \/ RunVerifyOnly) =>
                /\ ~toolRun'.wrote /\ ~toolRun'.createdDir
                /\ fs' = fs
      ]_vars

\* a plugin run that verified the build output and then failed, leaving no
\* output directory behind
C30_Witness ==
    /\ op = "closeBundle"
    /\ toolRun.outcome = "threw" /\ toolRun.verifierRan
    /\ ~toolRun.wrote /\ ~toolRun.createdDir
    /\ KindOf(fs, ProjectPath(S_apphosting)) = "absent"

====
